---- MODULE Spec2Model ----
(***************************************************************************)
(* State-machine model of the scaffolding generators of mcp-template:      *)
(* the case converter (scripts/utils.ts), the execute wrapper, and the     *)
(* orchestrators init-project, new-domain, new-service, new-client and     *)
(* new-tool, over a virtual file system.                                   *)
(*                                                                         *)
(* Text is modelled by TLA+ strings, character by character: a character   *)
(* is a string of length one, SubSeq(s, i, i).  JavaScript indices are     *)
(* 0-based with -1 for "not found"; the model's are 1-based with 0.  A     *)
(* TLA+ string cannot hold the backquote of a template literal: the model  *)
(* writes it as the apostrophe, a character no pattern of the scripts      *)
(* looks at.                                                               *)
(***************************************************************************)
EXTENDS Integers, Sequences, FiniteSets, TLC

VARIABLES
  caseIn,     \* converter specification: the raw text
  caseForm,   \* converter specification: the case form applied
  caseOut,    \* convert(caseIn, caseForm), once applied
  caseOut2,   \* convert(caseOut, caseForm), once applied
  casePc,     \* "in" -> "once" -> "twice"
  gen,        \* the generator being run ("none" in the converter spec)
  pc,         \* position of the orchestration callback
  raw,        \* RawInputs gathered by loadInputs
  config,     \* the configuration object built by transformInputs
  files,      \* file system: path -> content
  dirs,       \* file system: the directories
  readOnly,   \* file system: paths whose write fails (EACCES)
  files0,     \* the files as the run found them
  dirs0,      \* the directories as the run found them
  trace,      \* file-system operations and console lines, in program order
  err,        \* the rejection of the callback's promise, NoErr when none
  rlClosed,   \* whether rl.close() was called
  exitCode,   \* -1 while the process runs, then 0 or 1
  executePromise  \* the promise execute returned: "pending" or "fulfilled"

caseVars == <<caseIn, caseForm, caseOut, caseOut2, casePc>>
runVars  == <<gen, pc, raw, config, files, dirs, readOnly, files0, dirs0,
              trace, err, rlClosed, exitCode, executePromise>>
vars     == <<caseIn, caseForm, caseOut, caseOut2, casePc,
              gen, pc, raw, config, files, dirs, readOnly, files0, dirs0,
              trace, err, rlClosed, exitCode, executePromise>>

\* no exception propagating / no object built yet
NoErr == "<none>"
NoConfig == [none |-> TRUE]

(***************************************************************************)
(* Strings.                                                                *)
(***************************************************************************)
Char(s, i) == SubSeq(s, i, i)

Min(S) == CHOOSE x \in S : \A y \in S : x <= y
Max(S) == CHOOSE x \in S : \A y \in S : x >= y

\* String.prototype.slice(from) with a 0-based from, as the text from the
\* 1-based position i to the end.
From(s, i) == SubSeq(s, i, Len(s))

startsWith(s, pat) == Len(pat) <= Len(s) /\ SubSeq(s, 1, Len(pat)) = pat
endsWith(s, pat) ==
  Len(pat) <= Len(s) /\ SubSeq(s, Len(s) - Len(pat) + 1, Len(s)) = pat

\* String.prototype.indexOf(pat, from): the first position >= from, 0 if none.
IndexFrom(s, pat, from) ==
  LET c == Char(pat, 1)
      n == Len(pat) - 1
      hits == {i \in from..(Len(s) - n) :
                 SubSeq(s, i, i) = c /\ SubSeq(s, i, i + n) = pat}
  IN  IF hits = {} THEN 0 ELSE Min(hits)

indexOf(s, pat) == IndexFrom(s, pat, 1)

lastIndexOf(s, pat) ==
  LET c == Char(pat, 1)
      n == Len(pat) - 1
      hits == {i \in 1..(Len(s) - n) :
                 SubSeq(s, i, i) = c /\ SubSeq(s, i, i + n) = pat}
  IN  IF hits = {} THEN 0 ELSE Max(hits)

includes(s, pat) == indexOf(s, pat) # 0

LowerLetters == "abcdefghijklmnopqrstuvwxyz"
UpperLetters == "ABCDEFGHIJKLMNOPQRSTUVWXYZ"

\* the character c (or the empty text) in upper case, in lower case
toUpperChar(c) ==
  IF c = "" \/ ~includes(LowerLetters, c) THEN c
  ELSE Char(UpperLetters, indexOf(LowerLetters, c))

toLowerChar(c) ==
  IF c = "" \/ ~includes(UpperLetters, c) THEN c
  ELSE Char(LowerLetters, indexOf(UpperLetters, c))

\* String.prototype.toUpperCase / toLowerCase: character by character, the
\* text halved at each level
RECURSIVE toUpperCase(_)
toUpperCase(s) ==
  IF Len(s) <= 1 THEN toUpperChar(s)
  ELSE toUpperCase(SubSeq(s, 1, Len(s) \div 2))
         \o toUpperCase(SubSeq(s, Len(s) \div 2 + 1, Len(s)))

RECURSIVE toLowerCase(_)
toLowerCase(s) ==
  IF Len(s) <= 1 THEN toLowerChar(s)
  ELSE toLowerCase(SubSeq(s, 1, Len(s) \div 2))
         \o toLowerCase(SubSeq(s, Len(s) \div 2 + 1, Len(s)))

\* \s of the regular expressions and of trim()
WhiteSet == {" ", "\t", "\n", "\r"}

\* String.prototype.trim
RECURSIVE trim(_)
trim(s) ==
  IF s = "" THEN s
  ELSE IF Head(s) \in WhiteSet THEN trim(Tail(s))
  ELSE IF Char(s, Len(s)) \in WhiteSet THEN trim(SubSeq(s, 1, Len(s) - 1))
  ELSE s

RECURSIVE join(_, _)
join(words, sep) ==
  IF words = <<>> THEN ""
  ELSE IF Len(words) = 1 THEN words[1]
  ELSE words[1] \o sep \o join(Tail(words), sep)

(***************************************************************************)
(* Case Converter (scripts/utils.ts).                                      *)
(***************************************************************************)
\* the character class [-_\s.] of the split
IsSeparator(s, i) == SubSeq(s, i, i) \in {"-", "_", "."} \cup WhiteSet

\* the positions where a maximal run of characters that are no separators
\* starts, and where the run that starts at i ends
RunStarts(s) ==
  {i \in 1..Len(s) : ~IsSeparator(s, i) /\ (i = 1 \/ IsSeparator(s, i - 1))}

RunEnd(s, i) ==
  Min({j \in i..Len(s) : j = Len(s) \/ IsSeparator(s, j + 1)})

\* the k-th smallest element of a set of numbers
Nth(S, k) == CHOOSE x \in S : Cardinality({y \in S : y < x}) = k - 1

\* str.trim().split(/[-_\s.]+/).filter(w => w.length > 0): the runs of the
\* trimmed text, left to right
SplitRuns(s) ==
  [k \in 1..Cardinality(RunStarts(s)) |->
     SubSeq(s, Nth(RunStarts(s), k), RunEnd(s, Nth(RunStarts(s), k)))]

splitWordsBySpaceHyphendUnderscoreOrDot(str) == SplitRuns(trim(str))

\* word.charAt(0).toUpperCase() + word.slice(1).toLowerCase()
Capitalize(word) ==
  IF word = "" THEN ""
  ELSE toUpperChar(Head(word)) \o toLowerCase(Tail(word))

\* MixedCase: /[a-z]/.test(word) && /[A-Z]/.test(word)
PascalWords(words) ==
  LET MixedCase(word) == toUpperCase(word) # word /\ toLowerCase(word) # word
  IN  IF Len(words) = 1 /\ MixedCase(words[1])
        THEN toUpperChar(Head(words[1])) \o Tail(words[1])
        ELSE join([i \in 1..Len(words) |-> Capitalize(words[i])], "")

toPascalCase(str) == PascalWords(splitWordsBySpaceHyphendUnderscoreOrDot(str))

CamelWords(words) ==
  join([i \in 1..Len(words) |->
          IF i = 1 THEN toLowerCase(words[i])
                   ELSE Capitalize(toLowerCase(words[i]))], "")

toCamelCase(str) == CamelWords(splitWordsBySpaceHyphendUnderscoreOrDot(str))

\* words.map(word => word.toLowerCase()).join(sep)
LowerWords(words, sep) ==
  join([i \in 1..Len(words) |-> toLowerCase(words[i])], sep)

toKebabCase(str) ==
  LowerWords(splitWordsBySpaceHyphendUnderscoreOrDot(str), "-")

toSnakeCase(str) ==
  LowerWords(splitWordsBySpaceHyphendUnderscoreOrDot(str), "_")

\* the environment-variable form: toSnakeCase(...).toUpperCase()
toUpperSnake(str) == toUpperCase(toSnakeCase(str))

CaseForms == {"Kebab", "Camel", "Pascal", "Snake", "UpperSnake"}

convert(x, form) ==
  CASE form = "Kebab"      -> toKebabCase(x)
    [] form = "Camel"      -> toCamelCase(x)
    [] form = "Pascal"     -> toPascalCase(x)
    [] form = "Snake"      -> toSnakeCase(x)
    [] form = "UpperSnake" -> toUpperSnake(x)

(***************************************************************************)
(* Text search and replacement.                                            *)
(***************************************************************************)
\* content.split(search).join(replace), and content.replace(/search/g, ..):
\* every occurrence, left to right, the replaced text not scanned again.
RECURSIVE ReplaceAll(_, _, _)
ReplaceAll(s, pat, rep) ==
  LET i == indexOf(s, pat)
  IN  IF pat = "" \/ i = 0 THEN s
      ELSE SubSeq(s, 1, i - 1) \o rep
             \o ReplaceAll(From(s, i + Len(pat)), pat, rep)

\* content.replace(/search/, ..) without the g flag: the first occurrence.
ReplaceFirst(s, pat, rep) ==
  LET i == indexOf(s, pat)
  IN  IF i = 0 THEN s
      ELSE SubSeq(s, 1, i - 1) \o rep \o From(s, i + Len(pat))

\* s.split(sep) for a literal, non-empty separator
RECURSIVE SplitOn(_, _)
SplitOn(s, sep) ==
  LET i == indexOf(s, sep)
  IN  IF i = 0 THEN <<s>>
      ELSE <<SubSeq(s, 1, i - 1)>> \o SplitOn(From(s, i + Len(sep)), sep)

(***************************************************************************)
(* Paths (node:path, POSIX).  Paths are relative to the project root, the  *)
(* working directory of every generator; the root itself is ".".           *)
(***************************************************************************)
RECURSIVE NormalizeSegments(_, _)
NormalizeSegments(segs, acc) ==
  IF segs = <<>> THEN acc
  ELSE LET h == Head(segs)
       IN  IF h = "" \/ h = "." THEN NormalizeSegments(Tail(segs), acc)
           ELSE IF h = ".." /\ acc # <<>> /\ acc[Len(acc)] # ".."
             THEN NormalizeSegments(Tail(segs), SubSeq(acc, 1, Len(acc) - 1))
             ELSE NormalizeSegments(Tail(segs), Append(acc, h))

normalize(p) ==
  LET segs == NormalizeSegments(SplitOn(p, "/"), <<>>)
  IN  IF segs = <<>> THEN "." ELSE join(segs, "/")

\* path.join(a, b, ...): the parts joined by "/" and normalized
pathJoin(parts) == normalize(join(parts, "/"))

\* path.resolve(p) for a project-relative p
resolve(p) == normalize(p)

dirname(p) ==
  LET i == lastIndexOf(p, "/")
  IN  IF i = 0 THEN "." ELSE SubSeq(p, 1, i - 1)

basename(p) == From(p, lastIndexOf(p, "/") + 1)

\* p lies inside the directory d
Inside(p, d) == startsWith(p, d \o "/")

RECURSIVE Ancestors(_)
Ancestors(p) ==
  IF p = "." THEN {"."} ELSE {p} \cup Ancestors(dirname(p))

(***************************************************************************)
(* The file system (node:fs), threaded through the statements of a step as *)
(* a record st = [files, dirs, trace, err]: once st.err is set, an         *)
(* exception is propagating and the statements that follow do nothing.     *)
(* Every path that reaches fs comes out of path.join or path.resolve.      *)
(***************************************************************************)
\* an event of the run: to is the destination of a rename, and for a call
\* of a rewriter what the call returned; res is what was logged
Ev(op, path, to, res) == [op |-> op, path |-> path, to |-> to, res |-> res]

Emit(st, e) ==
  IF st.err # NoErr THEN st ELSE [st EXCEPT !.trace = Append(@, e)]

Throw(st, msg) ==
  IF st.err # NoErr THEN st ELSE [st EXCEPT !.err = msg]

Put(f, k, v) == [x \in (DOMAIN f) \cup {k} |-> IF x = k THEN v ELSE f[x]]

IsFile(st, p) == p \in DOMAIN st.files
IsDir(st, p) == p \in st.dirs
existsSync(st, p) == IsFile(st, p) \/ IsDir(st, p)

\* the fs calls that change the file system
MutationOps == {"write", "rename", "mkdir", "unlink"}

writeFileSync(st, p, content) ==
  IF st.err # NoErr THEN st
  ELSE IF IsDir(st, p) THEN Throw(st, "EISDIR: " \o p)
  ELSE IF ~IsDir(st, dirname(p)) THEN Throw(st, "ENOENT: " \o p)
  ELSE IF p \in readOnly THEN Throw(st, "EACCES: " \o p)
  ELSE [st EXCEPT !.files = Put(st.files, p, content),
                  !.trace = Append(@, Ev("write", p, "", "ok"))]

\* fs.mkdirSync(p, { recursive: true }) when recursive, fs.mkdirSync(p) else
mkdirSync(st, p, recursive) ==
  IF st.err # NoErr THEN st
  ELSE IF \E a \in Ancestors(p) : IsFile(st, a)
    THEN Throw(st, "EEXIST: " \o p)
  ELSE IF ~recursive /\ IsDir(st, p) THEN Throw(st, "EEXIST: " \o p)
  ELSE IF ~recursive /\ ~IsDir(st, dirname(p)) THEN Throw(st, "ENOENT: " \o p)
  ELSE [st EXCEPT !.dirs = st.dirs \cup Ancestors(p),
                  !.trace = Append(@, Ev("mkdir", p, "", "ok"))]

\* where the entry q of the renamed tree old ends up under new
Rebase(q, old, new) ==
  IF q = old THEN new
  ELSE IF Inside(q, old) THEN new \o From(q, Len(old) + 1)
  ELSE q

renameSync(st, old, new) ==
  IF st.err # NoErr THEN st
  ELSE IF ~existsSync(st, old) THEN Throw(st, "ENOENT: " \o old)
  ELSE IF ~IsDir(st, dirname(new)) THEN Throw(st, "ENOENT: " \o new)
  ELSE IF old = new THEN Emit(st, Ev("rename", old, new, "ok"))
  ELSE IF IsFile(st, old) /\ IsDir(st, new) THEN Throw(st, "EISDIR: " \o new)
  ELSE IF IsDir(st, old) /\ IsFile(st, new) THEN Throw(st, "ENOTDIR: " \o new)
  ELSE IF IsDir(st, old)
          /\ \E q \in (DOMAIN st.files) \cup st.dirs : Inside(q, new)
    THEN Throw(st, "ENOTEMPTY: " \o new)
  ELSE IF Inside(new, old) THEN Throw(st, "EINVAL: " \o new)
  ELSE [st EXCEPT
          !.files = [q \in {Rebase(k, old, new) : k \in DOMAIN @}
                       |-> @[CHOOSE k \in DOMAIN @ : Rebase(k, old, new) = q]],
          !.dirs = {Rebase(d, old, new) : d \in st.dirs},
          !.trace = Append(@, Ev("rename", old, new, "ok"))]

unlinkSync(st, p) ==
  IF st.err # NoErr THEN st
  ELSE IF IsDir(st, p) THEN Throw(st, "EISDIR: " \o p)
  ELSE IF ~IsFile(st, p) THEN Throw(st, "ENOENT: " \o p)
  ELSE [st EXCEPT !.files = [q \in (DOMAIN st.files) \ {p} |-> st.files[q]],
                  !.trace = Append(@, Ev("unlink", p, "", "ok"))]

(***************************************************************************)
(* The project manifest, package.json, in the layout that                  *)
(* JSON.stringify(pkg, null, 2) writes: the name, the description and the  *)
(* scripts table, one entry per line.  JSON.parse of any other text is a   *)
(* SyntaxError (ok = FALSE).                                               *)
(***************************************************************************)
\* ScriptEntry: a line  "key": "value"  of the scripts table, with or
\* without its comma
\* TopEntryOk: a line  "key": "value",  of the top level
ParseLines(lines, n) ==
  LET ScriptEntry(line) ==
        LET body == IF endsWith(line, ",") THEN SubSeq(line, 1, Len(line) - 1)
                                           ELSE line
            i == indexOf(body, "\": \"")
        IN  [ok |-> startsWith(body, "    \"") /\ endsWith(body, "\"") /\ i > 5
                    /\ i + 4 <= Len(body),
             key |-> SubSeq(body, 6, i - 1),
             value |-> SubSeq(body, i + 4, Len(body) - 1)]
      TopEntryOk(line, key) ==
        /\ startsWith(line, "  \"" \o key \o "\": \"")
        /\ endsWith(line, "\",")
        /\ ~includes(SubSeq(line, Len(key) + 8, Len(line) - 2), "\"")
  IN
  IF \/ n < 5
     \/ lines[1] # "{"
     \/ ~TopEntryOk(lines[2], "name")
     \/ ~TopEntryOk(lines[3], "description")
     \/ lines[n] # "}"
     \/ n = 5 /\ lines[4] # "  \"scripts\": {}"
     \/ n = 6
     \/ n > 6 /\ (lines[4] # "  \"scripts\": {" \/ lines[n - 1] # "  }")
     \/ \E k \in 5..(n - 2) :
          \/ ~ScriptEntry(lines[k]).ok
          \/ endsWith(lines[k], ",") # (k < n - 2)
    THEN [ok |-> FALSE, head |-> <<>>, scripts |-> <<>>]
    ELSE [ok |-> TRUE,
          head |-> SubSeq(lines, 1, 3),
          scripts |-> [k \in 1..(n - 6) |-> ScriptEntry(lines[k + 4])]]

\* JSON.parse(packageJsonContent)
parseManifest(text) == ParseLines(SplitOn(text, "\n"), Len(SplitOn(text, "\n")))

\* JSON.stringify(packageJson, null, 2)
stringifyManifest(pkg) ==
  join(pkg.head
         \o (IF pkg.scripts = <<>> THEN <<"  \"scripts\": {}">>
             ELSE <<"  \"scripts\": {">>
                    \o [k \in 1..Len(pkg.scripts) |->
                          "    \"" \o pkg.scripts[k].key \o "\": \""
                            \o pkg.scripts[k].value \o "\""
                            \o (IF k < Len(pkg.scripts) THEN "," ELSE "")]
                    \o <<"  }">>)
         \o <<"}">>, "\n")

(***************************************************************************)
(* The execute wrapper (scripts/utils.ts) and the steps of a callback.     *)
(***************************************************************************)
\* the file system as a step finds it
Begin == [files |-> files, dirs |-> dirs, trace |-> trace, err |-> NoErr]

\* the step after the step name in the sequence steps of a callback;
\* "resolved" after the last one
StepAfter(steps, name) ==
  LET i == CHOOSE k \in 1..Len(steps) : steps[k] = name
  IN  IF i = Len(steps) THEN "resolved" ELSE steps[i + 1]

\* the step leaves the file system st; a thrown error rejects the callback
Commit(st, next) ==
  /\ files' = st.files
  /\ dirs' = st.dirs
  /\ trace' = st.trace
  /\ err' = st.err
  /\ pc' = IF st.err = NoErr THEN next ELSE "rejected"

\* a catch handler that exits without the diagnostic line
executeOnRejectedQuiet(e) ==
  <<Ev("close", "", "", ""), Ev("exit", "", "", "1")>>

\* exec().then(() => { rl.close() }): with the prompt interface closed the
\* process has nothing left to wait for and ends with code 0
executeOnFulfilled ==
  <<Ev("close", "", "", ""), Ev("exit", "", "", "0")>>

\* .catch(err => { console.error("\n[FATAL ERROR]", err); rl.close();
\*                 process.exit(1); })
executeOnRejected(e) ==
  <<Ev("fatal", "", "", "[FATAL ERROR] " \o e),
    Ev("close", "", "", ""),
    Ev("exit", "", "", "1")>>

\* what the events of a handler leave behind
Settle(events) ==
  /\ trace' = trace \o events
  /\ rlClosed' = (rlClosed \/ \E i \in 1..Len(events) : events[i].op = "close")
  /\ exitCode' =
       IF \E i \in 1..Len(events) : events[i].op = "exit"
         THEN LET i == CHOOSE k \in 1..Len(events) : events[k].op = "exit"
              IN  IF events[i].res = "0" THEN 0 ELSE 1
         ELSE exitCode
  /\ pc' = "done"

\* export const execute = async (rl, startMessage, exec) => { ... }: the
\* banner is logged, exec() is started and left at its first question, the
\* two handlers are attached to the promise of exec(), and the body ends. No
\* expression of the body is awaited or returned, so the promise of the call
\* is fulfilled as the call returns.
execute ==
  /\ pc = "execute"
  /\ trace' = Append(trace, Ev("start", "", "", gen))
  /\ executePromise' = "fulfilled"
  /\ pc' = "loadInputs"
  /\ UNCHANGED <<gen, raw, config, files, dirs, readOnly, files0, dirs0, err,
                 rlClosed, exitCode>>
  /\ UNCHANGED caseVars

ExecuteThen ==
  /\ pc = "resolved"
  /\ Settle(executeOnFulfilled)
  /\ UNCHANGED <<gen, raw, config, files, dirs, readOnly, files0, dirs0, err,
                 executePromise>>
  /\ UNCHANGED caseVars

ExecuteCatch ==
  /\ pc = "rejected"
  /\ Settle(executeOnRejected(err))
  /\ UNCHANGED <<gen, raw, config, files, dirs, readOnly, files0, dirs0, err,
                 executePromise>>
  /\ UNCHANGED caseVars

(***************************************************************************)
(* init-project (scripts/startup-project/script.ts).                       *)
(***************************************************************************)
\* { search: /.../g, replace }; glob tells whether the pattern has the g flag.
\* Every pattern of this script is a literal text once unescaped.
Rule(search, replace, glob) ==
  [search |-> search, replace |-> replace, glob |-> glob]

\* content = <new content>; if (content !== original) hasChanges = true
Replaced(acc, content) ==
  [hasChanges |-> acc.hasChanges \/ content # acc.content, content |-> content]

\* content.split(search).join(replace)
SplitJoin(acc, rule) ==
  Replaced(acc, ReplaceAll(acc.content, rule.search, rule.replace))

\* content.replace(search, replace), search being a RegExp, which every
\* pattern of this script is
RegExpReplace(acc, rule) ==
  Replaced(acc, IF rule.glob
                  THEN ReplaceAll(acc.content, rule.search, rule.replace)
                  ELSE ReplaceFirst(acc.content, rule.search, rule.replace))

RECURSIVE ApplyRules(_, _)
ApplyRules(acc, rules) ==
  IF rules = <<>> THEN acc
  ELSE ApplyRules(RegExpReplace(SplitJoin(acc, Head(rules)), Head(rules)),
                  Tail(rules))

\* if (hasChanges) { fs.writeFileSync(fullPath, content); log "[UPDATED]" }
\* else log "[NO CHANGE]"
SaveChanges(st, fullPath, r) ==
  IF r.hasChanges
    THEN writeFileSync(Emit(st, Ev("replaceInFile", fullPath, "undefined", "updated")),
                       fullPath, r.content)
    ELSE Emit(st, Ev("replaceInFile", fullPath, "undefined", "nochange"))

ReplaceAt(st, fullPath, replacements) ==
  IF st.err # NoErr THEN st
  ELSE IF ~existsSync(st, fullPath)
    THEN Emit(st, Ev("replaceInFile", fullPath, "undefined", "notfound"))
  ELSE IF IsDir(st, fullPath) THEN Throw(st, "EISDIR: " \o fullPath)
  ELSE SaveChanges(st, fullPath,
                   ApplyRules([content |-> st.files[fullPath],
                               hasChanges |-> FALSE], replacements))

\* a replaceInFile that throws where its file is missing
replaceInFileOrThrow(st, filePath, replacements) ==
  IF st.err = NoErr /\ ~existsSync(st, resolve(filePath))
    THEN Throw(Emit(st, Ev("replaceInFile", resolve(filePath), "undefined",
                           "notfound")),
               "ENOENT: " \o filePath)
    ELSE ReplaceAt(st, resolve(filePath), replacements)

replaceInFile(st, filePath, replacements) ==
  ReplaceAt(st, resolve(filePath), replacements)

renameDir(st, oldPath, newPath) ==
  IF st.err # NoErr THEN st
  ELSE IF existsSync(st, oldPath)
    THEN IF existsSync(st, newPath)
           THEN Emit(st, Ev("renameDir", oldPath, newPath, "skipped"))
           ELSE renameSync(Emit(st, Ev("renameDir", oldPath, newPath, "renamed")),
                           oldPath, newPath)
    ELSE Emit(st, Ev("renameDir", oldPath, newPath, "notfound"))

renameFile(st, oldPath, newPath) ==
  IF st.err # NoErr THEN st
  ELSE IF existsSync(st, oldPath)
    THEN renameSync(Emit(st, Ev("renameFile", oldPath, newPath, "renamed")),
                    oldPath, newPath)
    ELSE Emit(st, Ev("renameFile", oldPath, newPath, "notfound"))

\* if (packageJson.scripts && packageJson.scripts['startup-project'])
\*   { delete ...; fs.writeFileSync(..., JSON.stringify(packageJson, null, 2)) }
RemoveCommand(st, pkg) ==
  IF ~pkg.ok THEN Throw(st, "SyntaxError: JSON.parse")
  ELSE IF \E i \in 1..Len(pkg.scripts) :
            pkg.scripts[i].key = "startup-project" /\ pkg.scripts[i].value # ""
    THEN writeFileSync(
           Emit(st, Ev("cleanup", "package.json", "", "command")),
           "package.json",
           stringifyManifest(
             [pkg EXCEPT !.scripts =
                SelectSeq(@, LAMBDA e : e.key # "startup-project")]))
  ELSE st

\* CleanManifest: if (fs.existsSync(packageJsonPath)) { ... }
\* RemoveScript: if (fs.existsSync(scriptPath)) fs.unlinkSync(scriptPath)
\* CatchCleanup: catch (err) { console.warn("[WARN] Cleanup failed", err) }
cleanup(st) ==
  LET CleanManifest(s) ==
        IF ~existsSync(s, "package.json") THEN s
        ELSE IF IsDir(s, "package.json") THEN Throw(s, "EISDIR: package.json")
        ELSE RemoveCommand(s, parseManifest(s.files["package.json"]))
      RemoveScript(s) ==
        IF s.err # NoErr THEN s
        ELSE IF existsSync(s, "scripts/startup-project.ts")
          THEN unlinkSync(Emit(s, Ev("cleanup", "scripts/startup-project.ts", "", "script")),
                          "scripts/startup-project.ts")
        ELSE s
      CatchCleanup(s) ==
        IF s.err = NoErr THEN s
        ELSE [s EXCEPT !.err = NoErr,
                       !.trace = Append(@, Ev("warn", "", "", "Cleanup failed"))]
  IN  IF st.err # NoErr THEN st
      ELSE CatchCleanup(RemoveScript(CleanManifest(st)))

startup_transformInputs(inputs) ==
  LET projectName == toKebabCase(inputs.projectNameRaw)
      domainInput == toKebabCase(inputs.domainInputRaw)
      serviceMethod == toCamelCase(inputs.serviceMethodRaw)
      toolName == toSnakeCase(inputs.toolNameRaw)
      clientMethodName == toCamelCase(inputs.clientMethodNameRaw)
      domainPascalCase == toPascalCase(domainInput)
      serviceMethodPascal == toPascalCase(inputs.serviceMethodRaw)
  IN  [projectName |-> projectName,
       domainInput |-> domainInput,
       serviceMethod |-> serviceMethod,
       toolName |-> toolName,
       clientMethodName |-> clientMethodName,
       domainDirName |-> toLowerCase(domainInput),
       domainPascalCase |-> domainPascalCase,
       domainServiceClassName |-> domainPascalCase \o "Service",
       toolEnvVar |-> toUpperCase(toolName),
       domainServiceFileName |-> domainInput \o ".service.ts",
       dbClientClassName |-> domainPascalCase \o "DbClient",
       httpClientClassName |-> domainPascalCase \o "HttpClient",
       dbClientFileName |-> domainInput \o ".db.client.ts",
       httpClientFileName |-> domainInput \o ".http.client.ts",
       serviceMethodPascal |-> serviceMethodPascal,
       requestDto |-> serviceMethodPascal \o "RequestDto",
       responseDto |-> serviceMethodPascal \o "ResponseDto"]

updateGlobalConfig(st, c) ==
  LET s1 == replaceInFile(st, "package.json",
              <<Rule("\"name\": \"example-mcp-proj-name\"",
                     "\"name\": \"" \o c.projectName \o "\"", FALSE),
                Rule("\"description\": \"example-mcp-proj-name\"",
                     "\"description\": \"" \o c.projectName \o "\"", FALSE)>>)
      s2 == replaceInFile(s1, "package-lock.json",
              <<Rule("\"name\": \"example-mcp-proj-name\"",
                     "\"name\": \"" \o c.projectName \o "\"", TRUE)>>)
      s3 == replaceInFile(s2, "readme.md",
              <<Rule("example-mcp-proj-name", c.projectName, TRUE)>>)
      s4 == replaceInFile(s3, "src/env.ts",
              <<Rule("SERVER_NAME: \"example-mcp-proj-name\"",
                     "SERVER_NAME: \"" \o c.projectName \o "\"", FALSE),
                Rule("process.env.EXAMPLE_TOOL",
                     "process.env." \o c.toolEnvVar, TRUE),
                Rule("toolMetadata.example_tool.name",
                     "toolMetadata." \o c.toolName \o ".name", TRUE)>>)
  IN  replaceInFile(s4, "src/tools.metadata.ts",
        <<Rule("example_tool:", c.toolName \o ":", TRUE),
          Rule("name: \"example_tool\"",
               "name: \"" \o c.toolName \o "\"", TRUE)>>)

\* an updateDomainStructure that computes the paths of the files under the
\* name the directory had before its rename
updateDomainStructureOldPaths(st, c) ==
  LET oldDomainPath == pathJoin(<<"src", "domain", "domain-name">>)
      newDomainPath == pathJoin(<<"src", "domain", c.domainDirName>>)
      dtoDir == pathJoin(<<oldDomainPath, "dtos">>)
      clientsDir == pathJoin(<<oldDomainPath, "clients">>)
      servicesDir == pathJoin(<<oldDomainPath, "services">>)
      s1 == renameDir(st, oldDomainPath, newDomainPath)
      s2 == renameFile(s1, pathJoin(<<dtoDir, "domain.dto.ts">>),
                       pathJoin(<<dtoDir, c.serviceMethod \o ".dto.ts">>))
      s3 == renameFile(s2, pathJoin(<<clientsDir, "domain.db.client.ts">>),
                       pathJoin(<<clientsDir, c.dbClientFileName>>))
      s4 == renameFile(s3, pathJoin(<<clientsDir, "domain.http.client.ts">>),
                       pathJoin(<<clientsDir, c.httpClientFileName>>))
  IN  renameFile(s4, pathJoin(<<servicesDir, "domain.service.ts">>),
                 pathJoin(<<servicesDir, c.domainServiceFileName>>))

updateDomainStructure(st, c) ==
  LET oldDomainPath == pathJoin(<<"src", "domain", "domain-name">>)
      newDomainPath == pathJoin(<<"src", "domain", c.domainDirName>>)
      dtoDir == pathJoin(<<newDomainPath, "dtos">>)
      clientsDir == pathJoin(<<newDomainPath, "clients">>)
      servicesDir == pathJoin(<<newDomainPath, "services">>)
      s1 == renameDir(st, oldDomainPath, newDomainPath)
      s2 == renameFile(s1, pathJoin(<<dtoDir, "domain.dto.ts">>),
                       pathJoin(<<dtoDir, c.serviceMethod \o ".dto.ts">>))
      s3 == renameFile(s2, pathJoin(<<clientsDir, "domain.db.client.ts">>),
                       pathJoin(<<clientsDir, c.dbClientFileName>>))
      s4 == renameFile(s3, pathJoin(<<clientsDir, "domain.http.client.ts">>),
                       pathJoin(<<clientsDir, c.httpClientFileName>>))
  IN  renameFile(s4, pathJoin(<<servicesDir, "domain.service.ts">>),
                 pathJoin(<<servicesDir, c.domainServiceFileName>>))

\* the three replacements that end every rule list of updateDomainContent
\* but the first, which has the last two only
DtoRules(c) ==
  <<Rule("\"../dtos/domain.dto.js\"",
         "\"../dtos/" \o c.serviceMethod \o ".dto.js\"", TRUE),
    Rule("DomainExampleRequestDto", c.requestDto, TRUE),
    Rule("DomainExampleResponseDto", c.responseDto, TRUE)>>

updateDomainContent(st, c) ==
  LET domainPath == pathJoin(<<"src", "domain", c.domainDirName>>)
      dtoPath == pathJoin(<<domainPath, "dtos", c.serviceMethod \o ".dto.ts">>)
      clientsDir == pathJoin(<<domainPath, "clients">>)
      dbClientPath == pathJoin(<<clientsDir, c.dbClientFileName>>)
      httpClientPath == pathJoin(<<clientsDir, c.httpClientFileName>>)
      servicePath == pathJoin(<<domainPath, "services", c.domainServiceFileName>>)
      s1 == replaceInFile(st, dtoPath, Tail(DtoRules(c)))
      s2 == replaceInFile(s1, dbClientPath,
              <<Rule("class DomainDbClient",
                     "class " \o c.dbClientClassName, TRUE),
                Rule("async example(",
                     "async " \o c.clientMethodName \o "(", TRUE)>>
                \o DtoRules(c))
      s3 == replaceInFile(s2, httpClientPath,
              <<Rule("class DomainHttpClient",
                     "class " \o c.httpClientClassName, TRUE),
                Rule("async example(",
                     "async " \o c.clientMethodName \o "(", TRUE)>>
                \o DtoRules(c))
  IN  replaceInFile(s3, servicePath,
        <<Rule("class DomainService",
               "class " \o c.domainServiceClassName, TRUE),
          Rule("async example(", "async " \o c.serviceMethod \o "(", TRUE),
          Rule("\"../clients/domain.http.client.js\"",
               "\"../clients/"
                 \o ReplaceFirst(c.httpClientFileName, ".ts", ".js")
                 \o "\"", TRUE),
          Rule("DomainHttpClient", c.httpClientClassName, TRUE),
          Rule("this.httpClient.example(",
               "this.httpClient." \o c.clientMethodName \o "(", TRUE),
          Rule("new DomainService(",
               "new " \o c.domainServiceClassName \o "(", TRUE)>>
          \o DtoRules(c))

startup_updateMcpRegistry(st, c) ==
  replaceInFile(st, "src/mcp/tools.ts",
    <<Rule("domain-name/services/domain.service.js",
           c.domainDirName \o "/services/"
             \o ReplaceFirst(c.domainServiceFileName, ".ts", ".js"), TRUE),
      Rule("import DomainService",
           "import " \o c.domainServiceClassName, TRUE),
      Rule("DomainService.example",
           c.domainServiceClassName \o "." \o c.serviceMethod, TRUE),
      Rule(".bind(DomainService)",
           ".bind(" \o c.domainServiceClassName \o ")", TRUE),
      Rule("toolMetadata.example_tool", "toolMetadata." \o c.toolName, TRUE)>>)

\* the callback with the content rewrite ahead of the structural rename
startupStepsContentFirst ==
  <<"loadInputs", "transformInputs", "updateGlobalConfig",
    "updateDomainContent", "updateDomainStructure", "updateMcpRegistry",
    "endMessage", "cleanup">>

\* the callback with the self-deletion ahead of the registry update
startupStepsCleanupEarly ==
  <<"loadInputs", "transformInputs", "updateGlobalConfig",
    "updateDomainStructure", "updateDomainContent", "cleanup",
    "updateMcpRegistry", "endMessage">>

\* the callback handed to execute, statement by statement
startupSteps ==
  <<"loadInputs", "transformInputs", "updateGlobalConfig",
    "updateDomainStructure", "updateDomainContent", "updateMcpRegistry",
    "endMessage", "cleanup">>

(***************************************************************************)
(* Discovery (scripts/utils.ts) and what the generators share.             *)
(***************************************************************************)
\* the first position >= i of s whose character is not in set, Len(s) + 1
\* if there is none: the end of a run matched by \s* or \w+ that starts at i
SkipWhile(s, i, set) ==
  Min({j \in i..(Len(s) + 1) : j = Len(s) + 1 \/ Char(s, j) \notin set})

\* \w of the regular expressions
WordSet ==
  {Char(LowerLetters \o UpperLetters \o "0123456789_", i) : i \in 1..63}

\* content.match(/export\s+class\s+(\w+)/): match[1], "" when match is null.
\* At(s, i) is the group (\w+) of the expression matched at position i of
\* s, "" when the expression does not match there
ClassName(content) ==
  LET Found(s, i, a, b) ==
        IF /\ i + 6 <= Len(s)
           /\ SubSeq(s, i, i + 5) = "export"
           /\ a > i + 6
           /\ startsWith(From(s, a), "class")
           /\ b > a + 5
          THEN SubSeq(s, b, SkipWhile(s, b, WordSet) - 1)
          ELSE ""
      Class(s, i, a) == Found(s, i, a, SkipWhile(s, a + 5, WhiteSet))
      At(s, i) == Class(s, i, SkipWhile(s, i + 6, WhiteSet))
      hits == {i \in 1..Len(content) :
                 Char(content, i) = "e" /\ At(content, i) # ""}
  IN  IF hits = {} THEN "" ELSE At(content, Min(hits))

\* the value of the digits s in the given radix
RECURSIVE DigitsValue(_, _)
DigitsValue(s, radix) ==
  IF s = "" THEN 0
  ELSE radix * DigitsValue(SubSeq(s, 1, Len(s) - 1), radix)
         + indexOf("0123456789abcdef", toLowerChar(Char(s, Len(s)))) - 1

\* parseInt(text): leading white space, a sign, 0x for radix 16, then the
\* longest run of digits; nan when that run is empty
parseInt(text) ==
  LET Value(d, radix, sign) ==
        LET n == SkipWhile(d, 1, {c \in WordSet :
                                    toLowerChar(c) \in {Char("0123456789abcdef", k) :
                                                          k \in 1..radix}}) - 1
        IN  [nan |-> n = 0,
             n |-> sign * DigitsValue(SubSeq(d, 1, n), radix)]
      Unsigned(u, sign) ==
        IF startsWith(toLowerCase(SubSeq(u, 1, Min({2, Len(u)}))), "0x")
          THEN Value(From(u, 3), 16, sign)
          ELSE Value(u, 10, sign)
      Signed(s) ==
        IF startsWith(s, "-") THEN Unsigned(From(s, 2), -1)
        ELSE IF startsWith(s, "+") THEN Unsigned(From(s, 2), 1)
        ELSE Unsigned(s, 1)
  IN  Signed(From(text, SkipWhile(text, 1, WhiteSet)))

\* a selection that falls back on the first of the list
SelectedOrFirst(list, answer, base) ==
  Max({Min({1, Len(list)})}
        \cup {k \in 1..Len(list) :
                parseInt(answer) = [nan |-> FALSE, n |-> k + base - 1]})

\* Selected with the answer taken as a 0-based position
SelectedZeroBased(list, answer, base) ==
  Max({0} \cup {k \in 1..Len(list) :
                  parseInt(answer) = [nan |-> FALSE, n |-> k + base - 2]})

\* list[parseInt(answer) - base], answer being 1-based for base 1: the
\* position in list, 0 where JavaScript gives undefined
Selected(list, answer, base) ==
  Max({0} \cup {k \in 1..Len(list) :
                  parseInt(answer) = [nan |-> FALSE, n |-> k + base - 1]})

\* the order in which the file system lists the names of a directory
DirectoryOrder ==
  <<"billing", "domain-name", "order-system",
    "domain.db.client.ts", "domain.http.client.ts", "domain.service.ts",
    "readme.md", "clients", "dtos", "services", "utils">>

\* fs.readdirSync(dir)
readdirSync(st, dir) ==
  SelectSeq(DirectoryOrder, LAMBDA n : existsSync(st, pathJoin(<<dir, n>>)))

RECURSIVE Flatten(_)
Flatten(seqs) ==
  IF seqs = <<>> THEN <<>> ELSE Head(seqs) \o Flatten(Tail(seqs))

\* DomainServices without the flat-file fallback
DomainServicesNestedOnly(st, name) ==
  LET Info(paths) ==
        SelectSeq([k \in 1..Len(paths) |->
                     [dirName |-> name,
                      className |-> ClassName(st.files[paths[k]]),
                      absolutePath |-> paths[k]]],
                  LAMBDA d : d.className # "")
      servicesDir == pathJoin(<<"src/domain", name, "services">>)
  IN  IF IsDir(st, servicesDir)
        THEN Info([k \in 1..Len(SelectSeq(readdirSync(st, servicesDir),
                                          LAMBDA f : endsWith(f, ".ts"))) |->
                     pathJoin(<<servicesDir,
                                SelectSeq(readdirSync(st, servicesDir),
                                          LAMBDA f : endsWith(f, ".ts"))[k]>>)])
        ELSE <<>>

\* the body of for (const entry of entries): the services of one domain
DomainServices(st, name) ==
  LET Info(paths) ==
        SelectSeq([k \in 1..Len(paths) |->
                     [dirName |-> name,
                      className |-> ClassName(st.files[paths[k]]),
                      absolutePath |-> paths[k]]],
                  LAMBDA d : d.className # "")
      Under(dir, names) == [k \in 1..Len(names) |-> pathJoin(<<dir, names[k]>>)]
      Services(servicesDir, servicePath) ==
        IF IsDir(st, servicesDir)
          THEN Info(Under(servicesDir,
                          SelectSeq(readdirSync(st, servicesDir),
                                    LAMBDA f : endsWith(f, ".ts"))))
        ELSE IF existsSync(st, servicePath) THEN Info(<<servicePath>>)
        ELSE <<>>
  IN  Services(pathJoin(<<"src/domain", name, "services">>),
               pathJoin(<<"src/domain", name, "service.ts">>))

getDomainsServicesWithDomainMap(st) ==
  LET Each(entries) ==
        Flatten([k \in 1..Len(entries) |->
                   IF IsDir(st, pathJoin(<<"src/domain", entries[k]>>))
                     THEN DomainServices(st, entries[k])
                     ELSE <<>>])
  IN  IF ~existsSync(st, "src/domain") THEN <<>>
      ELSE Each(readdirSync(st, "src/domain"))

\* Array.from(new Map(list.map(item => [item.dirName, item])).values()): one
\* item for each dirName, in the order of first appearance, the last item
\* that has it
getUniqueDomains(list) ==
  LET firsts == {k \in 1..Len(list) :
                   \A j \in 1..(k - 1) : list[j].dirName # list[k].dirName}
  IN  [k \in 1..Cardinality(firsts) |->
         list[Max({j \in 1..Len(list) :
                     list[j].dirName = list[Nth(firsts, k)].dirName})]]

(***************************************************************************)
(* new-domain (scripts/scaffold-domain/script.ts).  A configuration that   *)
(* fails validation is the record [err |-> message].                       *)
(***************************************************************************)
\* export interface <request> { ... } export interface <response> { ... }
DtoContent(requestDtoName, responseDtoName) ==
  "export interface " \o requestDtoName \o " {\n  // TODO: Add properties\n}\n\n"
    \o "export interface " \o responseDtoName \o " {\n  // TODO: Add properties\n}\n"

\* the text of a generated class file, reduced to the lines that carry a
\* derived name: the imports, the class with its members, and the default
\* export if the file has one; comments and fixed statements are left out
ClassContent(imports, className, members, instance) ==
  trim(join(imports \o <<"", "export class " \o className \o " {">>
              \o members \o <<"}">> \o instance, "\n"))

createDomainConfig(st, inputs) ==
  LET domainDirName == toKebabCase(inputs.domainNameRaw)
      domainBasePath == pathJoin(<<"src/domain", domainDirName>>)
      serviceMethodName == IF inputs.serviceMethodRaw # ""
                             THEN toCamelCase(inputs.serviceMethodRaw)
                             ELSE "getData"
      domainPascal == toPascalCase(domainDirName)
  IN  IF inputs.domainNameRaw = "" THEN [err |-> "Domain name is required."]
      ELSE IF existsSync(st, domainBasePath)
        THEN [err |-> "Domain '" \o domainDirName \o "' already exists."]
      ELSE [err |-> NoErr,
            domainDirName |-> domainDirName,
            domainBasePath |-> domainBasePath,
            addHttp |-> inputs.addHttpRaw \in {"y", "yes"},
            addDb |-> inputs.addDbRaw \in {"y", "yes"},
            clientMethodName |-> IF inputs.clientMethodNameRaw # ""
                                   THEN toCamelCase(inputs.clientMethodNameRaw)
                                   ELSE "fetchData",
            serviceMethodName |-> serviceMethodName,
            dtoFileName |-> serviceMethodName \o ".dto.ts",
            requestDtoName |-> toPascalCase(serviceMethodName) \o "RequestDto",
            responseDtoName |-> toPascalCase(serviceMethodName) \o "ResponseDto",
            httpClientClassName |-> domainPascal \o "HttpClient",
            dbClientClassName |-> domainPascal \o "DbClient",
            httpClientFileName |-> domainDirName \o ".http.client.ts",
            dbClientFileName |-> domainDirName \o ".db.client.ts",
            serviceClassName |-> domainPascal \o "Service",
            serviceFileName |-> domainDirName \o ".service.ts"]

createDirectories(st, c) ==
  LET s1 == mkdirSync(st, c.domainBasePath, TRUE)
      s2 == mkdirSync(s1, pathJoin(<<c.domainBasePath, "clients">>), FALSE)
      s3 == mkdirSync(s2, pathJoin(<<c.domainBasePath, "services">>), FALSE)
      s4 == mkdirSync(s3, pathJoin(<<c.domainBasePath, "dtos">>), FALSE)
  IN  IF c.addHttp
        THEN mkdirSync(s4, pathJoin(<<c.domainBasePath, "utils">>), FALSE)
        ELSE s4

\* import { <request>, <response> } from "../dtos/<dto file>.js";
DtoImport(requestDtoName, responseDtoName, dtoFileName) ==
  "import { " \o requestDtoName \o ", " \o responseDtoName
    \o " } from \"../dtos/" \o ReplaceFirst(dtoFileName, ".ts", ".js") \o "\";"

\* getApiUtilsTemplate().trim(), the text of utils/api.ts
ApiUtilsContent ==
  "import env from \"../../../env.js\";\n\n"
    \o "export function getHeaders(): Record<string, string> {\n"
    \o "  const headers: Record<string, string> = {};\n"
    \o "  return headers;\n}"

\* createDtoFile, createUtilsFile, createHttpClientFile, createDbClientFile
\* and createServiceFile, in the order of the callback
domain_createFiles(st, c) ==
  LET dto == DtoImport(c.requestDtoName, c.responseDtoName, c.dtoFileName)
      sig == "(dto: " \o c.requestDtoName \o "): Promise<"
               \o c.responseDtoName \o " | null> {"
      clients == (IF c.addHttp THEN <<"http">> ELSE <<>>)
                   \o (IF c.addDb THEN <<"db">> ELSE <<>>)
      classOf == [k \in {"http", "db"} |->
                    IF k = "http" THEN c.httpClientClassName
                    ELSE c.dbClientClassName]
      news == join([k \in 1..Len(clients) |->
                      "new " \o classOf[clients[k]] \o "()"], ", ")
      s1 == writeFileSync(
              st, pathJoin(<<c.domainBasePath, "dtos", c.dtoFileName>>),
              "export interface " \o c.requestDtoName \o " {\n  data?: any;\n}\n\n"
                \o "export interface " \o c.responseDtoName \o " {\n  data?: any;\n}")
      s2 == IF c.addHttp
              THEN writeFileSync(
                     s1, pathJoin(<<c.domainBasePath, "utils", "api.ts">>),
                     ApiUtilsContent)
              ELSE s1
      s3 == IF c.addHttp
              THEN writeFileSync(
                     s2, pathJoin(<<c.domainBasePath, "clients",
                                    c.httpClientFileName>>),
                     ClassContent(
                       <<"import { getHeaders } from \"../utils/api.js\";", dto>>,
                       c.httpClientClassName,
                       <<"  async " \o c.clientMethodName \o sig, "  }">>, <<>>))
              ELSE s2
      s4 == IF c.addDb
              THEN writeFileSync(
                     s3, pathJoin(<<c.domainBasePath, "clients",
                                    c.dbClientFileName>>),
                     ClassContent(
                       <<dto>>, c.dbClientClassName,
                       <<"  async " \o c.clientMethodName \o sig, "  }">>, <<>>))
              ELSE s3
  IN  writeFileSync(
        s4, pathJoin(<<c.domainBasePath, "services", c.serviceFileName>>),
        ClassContent(
          [k \in 1..Len(clients) |->
             "import { " \o classOf[clients[k]] \o " } from \"../clients/"
               \o c.domainDirName \o "." \o clients[k] \o ".client.js\";"]
            \o <<dto>>,
          c.serviceClassName,
          <<"  constructor("
              \o join([k \in 1..Len(clients) |->
                         "private readonly " \o clients[k] \o "Client: "
                           \o classOf[clients[k]]], ", ")
              \o ") {}",
            "  async " \o c.serviceMethodName \o sig>>
            \o (IF clients = <<>> THEN <<"    return null;">>
                ELSE <<"    const result = await this." \o clients[1]
                         \o "Client." \o c.clientMethodName \o "(dto);">>)
            \o <<"  }">>,
          <<"", "export default new " \o c.serviceClassName
                  \o "(" \o news \o ");">>))

(***************************************************************************)
(* new-client (scripts/scaffold-client/script.ts).                         *)
(***************************************************************************)
client_transformInputs(inputs) ==
  LET Config(domain, clientNameKebab) ==
        [err |-> NoErr,
         domain |-> domain,
         type |-> inputs.typeRaw,
         clientNameKebab |-> clientNameKebab,
         methodNameCamel |->
           IF inputs.methodRaw # "" THEN toCamelCase(inputs.methodRaw)
           ELSE IF inputs.typeRaw = "1" THEN "fetchData" ELSE "getData",
         classNamePrefix |-> toPascalCase(clientNameKebab),
         clientsDir |->
           resolve(pathJoin(<<"src/domain", domain.dirName, "clients">>))]
      Checked(domainIdx) ==
        IF domainIdx = 0 THEN [err |-> "Invalid domain selection."]
        ELSE IF inputs.typeRaw \notin {"1", "2"}
          THEN [err |-> "Invalid client type."]
        ELSE IF inputs.nameRaw = "" THEN [err |-> "Client name is required."]
        ELSE Config(inputs.availableDomains[domainIdx],
                    toKebabCase(inputs.nameRaw))
  IN  Checked(Selected(inputs.availableDomains, trim(inputs.domainIdxRaw), 1))

ensureDirectoryExists(st, dirPath) ==
  IF st.err # NoErr \/ existsSync(st, dirPath) THEN st
  ELSE mkdirSync(st, dirPath, TRUE)

\* ensureUtilsApi without the test for an existing file
ensureUtilsApiAlways(st, domainDirName) ==
  LET utilsDir == resolve(pathJoin(<<"src/domain", domainDirName, "utils">>))
      s1 == ensureDirectoryExists(st, utilsDir)
  IN  IF s1.err # NoErr
        THEN s1
        ELSE writeFileSync(s1, pathJoin(<<utilsDir, "api.ts">>), ApiUtilsContent)

ensureUtilsApi(st, domainDirName) ==
  LET utilsDir == resolve(pathJoin(<<"src/domain", domainDirName, "utils">>))
      s1 == ensureDirectoryExists(st, utilsDir)
  IN  IF s1.err # NoErr \/ existsSync(s1, pathJoin(<<utilsDir, "api.ts">>))
        THEN s1
        ELSE writeFileSync(s1, pathJoin(<<utilsDir, "api.ts">>), ApiUtilsContent)

\* generateClientFiles with generateHttpClient and generateDbClient
generateClientFiles(st, c) ==
  IF c.type = "1"
    THEN writeFileSync(
           ensureUtilsApi(ensureDirectoryExists(st, c.clientsDir),
                          c.domain.dirName),
           pathJoin(<<c.clientsDir, c.clientNameKebab \o ".http.client.ts">>),
           ClassContent(<<"import { getHeaders } from \"../utils/api.js\";">>,
                        c.classNamePrefix \o "HttpClient",
                        <<"  async " \o c.methodNameCamel
                            \o "(dto: any): Promise<any> {", "  }">>, <<>>))
    ELSE writeFileSync(
           ensureDirectoryExists(st, c.clientsDir),
           pathJoin(<<c.clientsDir, c.clientNameKebab \o ".db.client.ts">>),
           ClassContent(<<>>, c.classNamePrefix \o "DbClient",
                        <<"  async " \o c.methodNameCamel
                            \o "(id: string): Promise<any | null> {", "  }">>,
                        <<>>))

(***************************************************************************)
(* new-service (scripts/scaffold-service/script.ts).  A client that is not *)
(* chosen (null, undefined) is NoConfig.                                   *)
(***************************************************************************)
\* getClients of new-service and of new-tool: the client classes of the
\* given kind in clientsDir, each with what either script keeps of it
getClients(st, clientsDir, type) ==
  LET Each(found) ==
        SelectSeq([k \in 1..Len(found) |->
                     [fileName |-> found[k],
                      className |->
                        ClassName(st.files[pathJoin(<<clientsDir, found[k]>>)]),
                      absolutePath |-> pathJoin(<<clientsDir, found[k]>>),
                      importPath |-> "../clients/"
                                       \o ReplaceFirst(found[k], ".ts", ".js"),
                      isNew |-> FALSE]],
                  LAMBDA c : c.className # "")
  IN  IF ~existsSync(st, clientsDir) THEN <<>>
      ELSE Each(SelectSeq(readdirSync(st, clientsDir),
                          LAMBDA f : endsWith(f, "." \o type \o ".client.ts")))

\* one { dirName, rootPath } for each dirName, in the order of first
\* appearance
getAvailableDomains(allServices) ==
  LET firsts == {k \in 1..Len(allServices) :
                   \A j \in 1..(k - 1) :
                     allServices[j].dirName # allServices[k].dirName}
  IN  [k \in 1..Cardinality(firsts) |->
         [dirName |-> allServices[Nth(firsts, k)].dirName,
          rootPath |-> resolve(pathJoin(
                         <<dirname(allServices[Nth(firsts, k)].absolutePath),
                           "..">>))]]

\* Resolve DB Client / Resolve HTTP Client
resolveClient(selection, type) ==
  LET New(fileName, nameKebab) ==
        [fileName |-> fileName,
         className |-> toPascalCase(nameKebab)
                         \o (IF type = "http" THEN "HttpClient" ELSE "DbClient"),
         importPath |-> "../clients/" \o ReplaceFirst(fileName, ".ts", ".js"),
         isNew |-> TRUE]
      Existing(i) == IF i # 0 THEN selection.existingClients[i] ELSE NoConfig
  IN  IF selection.choice = "2" /\ selection.newName # ""
        THEN New(toKebabCase(selection.newName) \o "." \o type \o ".client.ts",
                 toKebabCase(selection.newName))
        ELSE Existing(Selected(selection.existingClients, selection.choice, 3))

service_transformInputs(inputs) ==
  LET Config(serviceNameKebab, named, methodName, methodPascal) ==
        [err |-> NoErr,
         domainRoot |-> inputs.domain.rootPath,
         serviceFileName |-> serviceNameKebab \o ".service.ts",
         serviceClassName |-> toPascalCase(serviceNameKebab) \o "Service",
         methodName |-> IF named THEN methodName ELSE "",
         requestDtoName |-> IF named THEN methodPascal \o "RequestDto" ELSE "",
         responseDtoName |-> IF named THEN methodPascal \o "ResponseDto" ELSE "",
         dtoFileName |-> IF named THEN methodName \o ".dto.ts" ELSE "",
         dbClient |-> resolveClient(inputs.dbClientSelection, "db"),
         httpClient |-> resolveClient(inputs.httpClientSelection, "http")]
  IN  Config(toKebabCase(inputs.serviceNameRaw), inputs.methodNameRaw # "",
             toCamelCase(inputs.methodNameRaw),
             toPascalCase(toCamelCase(inputs.methodNameRaw)))

generateFiles(st, c) ==
  LET clientsDir == pathJoin(<<c.domainRoot, "clients">>)
      servicesDir == pathJoin(<<c.domainRoot, "services">>)
      clients == (IF c.dbClient # NoConfig THEN <<"db">> ELSE <<>>)
                   \o (IF c.httpClient # NoConfig THEN <<"http">> ELSE <<>>)
      classOf == [k \in {"db", "http"} |->
                    IF k = "db" THEN c.dbClient ELSE c.httpClient]
      s1 == IF c.methodName # "" /\ c.dtoFileName # ""
              THEN writeFileSync(
                     ensureDirectoryExists(st, pathJoin(<<c.domainRoot, "dtos">>)),
                     pathJoin(<<c.domainRoot, "dtos", c.dtoFileName>>),
                     DtoContent(c.requestDtoName, c.responseDtoName))
              ELSE st
      s2 == ensureDirectoryExists(s1, clientsDir)
      s3 == IF c.dbClient # NoConfig /\ c.dbClient.isNew
              THEN writeFileSync(s2, pathJoin(<<clientsDir, c.dbClient.fileName>>),
                                 ClassContent(<<>>, c.dbClient.className, <<>>, <<>>))
              ELSE s2
      s4 == IF c.httpClient # NoConfig /\ c.httpClient.isNew
              THEN writeFileSync(
                     s3, pathJoin(<<clientsDir, c.httpClient.fileName>>),
                     ClassContent(<<"import { getHeaders } from \"../utils/api.js\";">>,
                                  c.httpClient.className, <<>>, <<>>))
              ELSE s3
  IN  writeFileSync(
        ensureDirectoryExists(s4, servicesDir),
        pathJoin(<<servicesDir, c.serviceFileName>>),
        ClassContent(
          [k \in 1..Len(clients) |->
             "import { " \o classOf[clients[k]].className \o " } from \""
               \o classOf[clients[k]].importPath \o "\";"]
            \o (IF c.methodName # ""
                  THEN <<DtoImport(c.requestDtoName, c.responseDtoName,
                                   c.dtoFileName)>>
                  ELSE <<>>),
          c.serviceClassName,
          <<"  constructor("
              \o join([k \in 1..Len(clients) |->
                         "private readonly " \o clients[k] \o "Client: "
                           \o classOf[clients[k]].className], ", ")
              \o ") {}">>
            \o (IF c.methodName # ""
                  THEN <<"  async " \o c.methodName \o "(dto: "
                           \o c.requestDtoName \o "): Promise<"
                           \o c.responseDtoName \o " | null> {",
                         "    return null;", "  }">>
                  ELSE <<>>),
          <<"", "export default new " \o c.serviceClassName \o "("
                  \o join([k \in 1..Len(clients) |->
                             "new " \o classOf[clients[k]].className \o "()"],
                          ", ")
                  \o ");">>))

(***************************************************************************)
(* new-tool (scripts/scaffold-tool/script.ts).                             *)
(***************************************************************************)
\* injector is the function of the call: [content \in STRING |-> new content]
injectIntoFile(st, filePath, injector) ==
  LET Save(fullPath, content, newContent) ==
        IF content # newContent
          THEN Emit(writeFileSync(st, fullPath, newContent),
                    Ev("injectIntoFile", fullPath, "undefined", "updated"))
          ELSE Emit(st, Ev("injectIntoFile", fullPath, "undefined", "nochange"))
      At(fullPath) ==
        IF ~existsSync(st, fullPath)
          THEN Emit(st, Ev("injectIntoFile", fullPath, "undefined", "notfound"))
        ELSE IF IsDir(st, fullPath) THEN Throw(st, "EISDIR: " \o fullPath)
        ELSE Save(fullPath, st.files[fullPath], injector[st.files[fullPath]])
  IN  IF st.err # NoErr THEN st ELSE At(resolve(filePath))

tool_transformInputs(inputs) ==
  LET Config(methodName, dtoDir) ==
        [err |-> NoErr,
         domain |-> inputs.domain,
         methodName |-> methodName,
         toolName |-> toSnakeCase(inputs.toolNameRaw),
         toolDescription |-> inputs.toolDescription,
         requestDtoName |-> toPascalCase(methodName) \o "RequestDto",
         responseDtoName |-> toPascalCase(methodName) \o "ResponseDto",
         dtoFile |-> pathJoin(<<dtoDir, methodName \o ".dto.ts">>),
         httpClient |-> inputs.httpClientSelection.client,
         httpClientMethodName |->
           toCamelCase(inputs.httpClientSelection.methodName),
         dbClient |-> inputs.dbClientSelection.client,
         dbClientMethodName |->
           toCamelCase(inputs.dbClientSelection.methodName)]
  IN  Config(toCamelCase(inputs.methodNameRaw),
             pathJoin(<<dirname(inputs.domain.absolutePath), "../dtos">>))

\* the replacement text of String.prototype.replace with its patterns $$, $&,
\* $1 and $2 filled in
RECURSIVE Substitute(_, _, _)
Substitute(text, p1, p2) ==
  LET i == indexOf(text, "$")
      next == SubSeq(text, i + 1, i + 1)
  IN  IF i = 0 THEN text
      ELSE SubSeq(text, 1, i - 1)
             \o (CASE next = "$" -> "$"
                   [] next = "&" -> p1 \o p2
                   [] next = "1" -> p1
                   [] next = "2" -> p2
                   [] OTHER -> "$" \o next)
             \o Substitute(From(text, i + 2), p1, p2)

\* content.replace(/(<head>[\s\S]*?)(<white><tail>)/, replacer), where
\* replacer is the function [p1, p2 \in STRING |-> replacement] and white
\* tells whether the second group starts with \s*: the groups are the text
\* from head up to the first tail after it, and that tail with the white
\* space before it
ReplaceAnchored(content, head, white, tail, replacer) ==
  LET Groups(i, j, q) ==
        SubSeq(content, 1, i - 1)
          \o replacer[SubSeq(content, i, j - 1),
                      SubSeq(content, j, q + Len(tail) - 1)]
          \o From(content, q + Len(tail))
      Tail2(i, q) ==
        IF q = 0 THEN content
        ELSE Groups(i,
                    IF white
                      THEN Min({r \in (i + Len(head))..q :
                                  \A k \in r..(q - 1) :
                                    Char(content, k) \in WhiteSet})
                      ELSE q,
                    q)
      Head1(i) ==
        IF i = 0 THEN content
        ELSE Tail2(i, IndexFrom(content, tail, i + Len(head)))
  IN  Head1(indexOf(content, head))

\* the description stands between apostrophes here, between backquotes in
\* the script
updateMetadata(st, c) ==
  injectIntoFile(st, "src/tools.metadata.ts",
    [content \in STRING |->
      ReplaceAnchored(content, "const toolMetadata = {", FALSE, "\n}",
        [p1, p2 \in STRING |->
          Substitute("$1\n  " \o c.toolName \o ": {\n    name: \""
                       \o c.toolName \o "\",\n    description: '"
                       \o c.toolDescription \o "',\n  },$2", p1, p2)])])

\* TOOLS_ENABLED:\s*\[ is the head of the pattern; the template and the
\* generated files have one space between the two
updateEnv(st, c) ==
  injectIntoFile(st, "src/env.ts",
    [content \in STRING |->
      ReplaceAnchored(content, "TOOLS_ENABLED: [", TRUE, "].filter",
        [p1, p2 \in STRING |->
          Substitute("$1\n    process.env." \o toUpperCase(c.toolName)
                       \o " === \"false\" ? null : toolMetadata."
                       \o c.toolName \o ".name,$2", p1, p2)])])

createDtoFile(st, c) ==
  writeFileSync(ensureDirectoryExists(st, dirname(c.dtoFile)), c.dtoFile,
                DtoContent(c.requestDtoName, c.responseDtoName))

\* importStmt + content with methodImpl ahead of the last closing brace
InjectMethod(content, c, method, body) ==
  LET newContent == "import { " \o c.requestDtoName \o ", " \o c.responseDtoName
                      \o " } from \"../dtos/" \o c.methodName \o ".dto.js\";\n"
                      \o content
      methodImpl == "\n  async " \o method \o "(dto: " \o c.requestDtoName
                      \o "): Promise<" \o c.responseDtoName \o " | null> {\n"
                      \o body \o "    return null;\n  }\n"
      lastBraceIndex == lastIndexOf(newContent, "}")
  IN  IF lastBraceIndex = 0 THEN newContent
      ELSE SubSeq(newContent, 1, lastBraceIndex - 1) \o methodImpl
             \o From(newContent, lastBraceIndex)

updateDomainService(st, c) ==
  injectIntoFile(st, c.domain.absolutePath,
    [content \in STRING |->
      InjectMethod(content, c, c.methodName,
        "    // TODO: Implement logic\n"
          \o (IF c.httpClient # NoConfig
                THEN "    // Example: const data = await this.httpClient."
                       \o c.httpClientMethodName \o "(dto);\n"
                       \o "    // return data;\n"
                ELSE IF c.dbClient # NoConfig
                  THEN "    // Example: const data = await this.dbClient."
                         \o c.dbClientMethodName \o "(dto);\n"
                         \o "    // return data;\n"
                ELSE "")
          \o "\n")])

updateClients(st, c) ==
  LET s1 == IF c.httpClient = NoConfig THEN st
            ELSE injectIntoFile(st, c.httpClient.absolutePath,
                   [content \in STRING |->
                     InjectMethod(content, c, c.httpClientMethodName,
                                  "    // TODO: Implement HTTP Request\n"
                                    \o "    // return this.httpClient.post<"
                                    \o c.responseDtoName
                                    \o ">(\"/path\", dto);\n")])
  IN  IF c.dbClient = NoConfig THEN s1
      ELSE injectIntoFile(s1, c.dbClient.absolutePath,
             [content \in STRING |->
               InjectMethod(content, c, c.dbClientMethodName,
                            "    // TODO: Implement DB Operation\n")])

\* path.relative(from, to) of two normalized paths
relative(from, to) ==
  LET a == SplitOn(from, "/")
      b == SplitOn(to, "/")
      n == Max({k \in 0..Min({Len(a), Len(b)}) :
                  SubSeq(a, 1, k) = SubSeq(b, 1, k)})
  IN  join([k \in 1..(Len(a) - n) |-> ".."] \o SubSeq(b, n + 1, Len(b)), "/")

\* a replacer that puts toolDef in the place of the entries of p1
AppendToolOverEntries(p1, toolDef, p2) ==
  SubSeq(p1, 1, indexOf(p1, "{")) \o toolDef \o p2

\* a replacer that adds no comma
AppendToolNoComma(p1, toolDef, p2) == p1 \o toolDef \o p2

\* the replacer of updateMcpRegistry: p1 with a comma after its last closing
\* brace if that brace has none, then toolDef, then p2
AppendTool(p1, toolDef, p2) ==
  LET lastBraceIndex == lastIndexOf(p1, "}")
  IN  (IF /\ lastBraceIndex # 0
          /\ lastBraceIndex > indexOf(p1, "{")
          /\ ~startsWith(trim(From(p1, lastBraceIndex + 1)), ",")
         THEN SubSeq(p1, 1, lastBraceIndex) \o "," \o From(p1, lastBraceIndex + 1)
         ELSE p1)
        \o toolDef \o p2

tool_updateMcpRegistry(st, c) ==
  LET Js(relativePath) ==
        IF endsWith(relativePath, ".ts")
          THEN SubSeq(relativePath, 1, Len(relativePath) - 3) \o ".js"
          ELSE relativePath
      Dotted(importPath) ==
        IF startsWith(importPath, ".") THEN importPath ELSE "./" \o importPath
  IN  injectIntoFile(st, "src/mcp/tools.ts",
        [content \in STRING |->
          ReplaceAnchored(
            IF includes(content, "import " \o c.domain.className) THEN content
            ELSE "import " \o c.domain.className \o " from \""
                   \o Dotted(Js(relative(resolve("src/mcp"),
                                         c.domain.absolutePath)))
                   \o "\";\n" \o content,
            "const tools: Record<string, ToolDefinition> = {", FALSE, "\n}",
            [p1, p2 \in STRING |->
              AppendTool(
                p1,
                "\n  [toolMetadata." \o c.toolName \o ".name]: {\n"
                  \o "    name: toolMetadata." \o c.toolName \o ".name,\n"
                  \o "    description: toolMetadata." \o c.toolName
                  \o ".description,\n"
                  \o "    inputSchema: {\n"
                  \o "      // TODO: Define Zod schema based on "
                  \o c.requestDtoName \o "\n"
                  \o "      // param: z.string(),\n    },\n"
                  \o "    callback: buildTool(" \o c.domain.className \o "."
                  \o c.methodName \o ".bind(" \o c.domain.className \o ")),\n"
                  \o "  },",
                p2)])])

(***************************************************************************)
(* Values shared by the specifications.                                    *)
(***************************************************************************)
\* the run part of the state while no generator runs
IdleRun ==
  /\ gen = "none"
  /\ pc = "idle"
  /\ raw = NoConfig
  /\ config = NoConfig
  /\ files = <<>>
  /\ dirs = {}
  /\ readOnly = {}
  /\ files0 = <<>>
  /\ dirs0 = {}
  /\ trace = <<>>
  /\ err = NoErr
  /\ rlClosed = FALSE
  /\ exitCode = -1
  /\ executePromise = "pending"

\* the converter part of the state while a generator runs
IdleCase ==
  /\ caseIn = ""
  /\ caseForm = "Kebab"
  /\ caseOut = ""
  /\ caseOut2 = ""
  /\ casePc = "idle"

(***************************************************************************)
(* The converter specification: every text of at most MaxLen characters    *)
(* over six characters, every form, converted once and then once more.       *)
(***************************************************************************)
MaxLen == 3

RECURSIVE TextsUpTo(_)
TextsUpTo(n) ==
  IF n = 0 THEN {""}
  ELSE LET shorter == TextsUpTo(n - 1)
       IN  shorter \cup {s \o c : s \in shorter, c \in {"a", "b", "B", "-", "_", " "}}

InitCase ==
  /\ caseIn \in TextsUpTo(MaxLen)
  /\ caseForm \in CaseForms
  /\ caseOut = ""
  /\ caseOut2 = ""
  /\ casePc = "in"
  /\ IdleRun

ConvertOnce ==
  /\ casePc = "in"
  /\ caseOut' = convert(caseIn, caseForm)
  /\ casePc' = "once"
  /\ UNCHANGED <<caseIn, caseForm, caseOut2>>
  /\ UNCHANGED runVars

ConvertTwice ==
  /\ casePc = "once"
  /\ caseOut2' = convert(caseOut, caseForm)
  /\ casePc' = "twice"
  /\ UNCHANGED <<caseIn, caseForm, caseOut>>
  /\ UNCHANGED runVars

NextCase == ConvertOnce \/ ConvertTwice

SpecCase == InitCase /\ [][NextCase]_vars

\* C4: every case form is idempotent: convert(convert(x, F), F) = convert(x, F).
CaseIdempotent ==
  casePc = "twice" => caseOut2 = caseOut

(***************************************************************************)
(* The specification of init-project.  The project the run finds is the    *)
(* template repository (the file contents are those of the template, the   *)
(* parts the script never touches left out), in one of the conditions     *)
(* that InitStartup lists.                                                 *)
(***************************************************************************)
EnvTemplate ==
  "import toolMetadata from \"./tools.metadata.js\";\n"
  \o "\n"
  \o "const env = {\n"
  \o "  SERVER_NAME: \"example-mcp-proj-name\",\n"
  \o "  TOOLS_ENABLED: [\n"
  \o "    process.env.EXAMPLE_TOOL === \"true\" ? toolMetadata.example_tool.name : null,\n"
  \o "  ].filter(element => element !== null),\n"
  \o "  API: {\n"
  \o "    Url: (() : string => {\n"
  \o "      if (!process.env.API_URL) {\n"
  \o "        throw new Error(\"API_URL environment variable is not defined\");\n"
  \o "      }\n"
  \o "\n"
  \o "      return process.env.API_URL.replace(/\\/$/, \"\") ?? \"\";\n"
  \o "    })(),\n"
  \o "    headers: {\n"
  \o "      Example: process.env.EXAMPLE_HEADER || \"\",\n"
  \o "    }\n"
  \o "  }\n"
  \o "}\n"
  \o "\n"
  \o "export default env;"

RegistryTemplate ==
  "import z from \"zod\";\n"
  \o "import { ToolDefinition } from \"./utils/dtos.js\";\n"
  \o "import toolMetadata from \"../tools.metadata.js\";\n"
  \o "import buildTool from \"./utils/newTool.js\";\n"
  \o "import DomainService from \"../domain/domain-name/services/domain.js\";\n"
  \o "\n"
  \o "const tools: Record<string, ToolDefinition> = {\n"
  \o "  [toolMetadata.example_tool.name]: {\n"
  \o "    name: toolMetadata.example_tool.name,\n"
  \o "    description: toolMetadata.example_tool.description,\n"
  \o "    inputSchema: {\n"
  \o "      exampleParam: z.string().describe('Example Tool param description'),\n"
  \o "    },\n"
  \o "    callback: buildTool(DomainService.example)\n"
  \o "  },\n"
  \o "}\n"
  \o "\n"
  \o "export default tools;"

DomainHttpClientTemplate ==
  "import HttpClient from \"../../../api/client.js\";\n"
  \o "import env from \"../../../env.js\";\n"
  \o "import { DomainExampleRequestDto, DomainExampleResponseDto } from \"../dtos/domain.dto.js\";\n"
  \o "import { getHeaders } from \"../utils/api.js\";\n"
  \o "\n"
  \o "export class DomainHttpClient {\n"
  \o "  private readonly httpClient: HttpClient\n"
  \o "  constructor() {\n"
  \o "    this.httpClient = new HttpClient(env.API.Url, getHeaders())\n"
  \o "  }\n"
  \o "\n"
  \o "  async example(dto: DomainExampleRequestDto): Promise<DomainExampleResponseDto | null> {\n"
  \o "    try {\n"
  \o "      const data = await this.httpClient.post<DomainExampleResponseDto>(\"/\", { ...dto });\n"
  \o "      return data;\n"
  \o "    } catch (e) {\n"
  \o "      console.error('Failed to execute query: ', e);\n"
  \o "      return null;\n"
  \o "    }\n"
  \o "  }\n"
  \o "}"

DomainServiceTemplate ==
  "import { DomainHttpClient } from \"../clients/domain.http.client.js\";\n"
  \o "import { DomainExampleRequestDto, DomainExampleResponseDto } from \"../dtos/domain.dto.js\";\n"
  \o "\n"
  \o "export class DomainService {\n"
  \o "  constructor(private readonly httpClient: DomainHttpClient) { }\n"
  \o "\n"
  \o "  async example(exampleParam: DomainExampleRequestDto): Promise<DomainExampleResponseDto | null> {\n"
  \o "    const data = await this.httpClient.example(exampleParam);\n"
  \o "    return data;\n"
  \o "  }\n"
  \o "}\n"
  \o "\n"
  \o "export default new DomainService(new DomainHttpClient());"

TemplateDirs ==
  {".", "src", "src/mcp", "src/domain", "scripts",
   "src/domain/domain-name", "src/domain/domain-name/dtos",
   "src/domain/domain-name/clients", "src/domain/domain-name/services"}

TemplateFiles ==
  [f \in {"package.json", "package-lock.json", "readme.md", "src/env.ts",
          "src/tools.metadata.ts", "src/mcp/tools.ts",
          "scripts/startup-project.ts",
          "src/domain/domain-name/dtos/domain.dto.ts",
          "src/domain/domain-name/clients/domain.db.client.ts",
          "src/domain/domain-name/clients/domain.http.client.ts",
          "src/domain/domain-name/services/domain.service.ts"} |->
     CASE f = "package.json" ->
            "{\n"
            \o "  \"name\": \"example-mcp-proj-name\",\n"
            \o "  \"description\": \"example-mcp-proj-name\",\n"
            \o "  \"scripts\": {\n"
            \o "    \"start\": \"node dist/index.js\",\n"
            \o "    \"startup-project\": \"ts-node scripts/startup-project.ts\"\n"
            \o "  }\n"
            \o "}"
       [] f = "package-lock.json" ->
            "{\n"
            \o "  \"name\": \"example-mcp-proj-name\"\n"
            \o "}"
       [] f = "readme.md" ->
            "# example-mcp-proj-name MCP Server"
       [] f = "src/env.ts" -> EnvTemplate
       [] f = "src/tools.metadata.ts" ->
            "const toolMetadata = {\n"
            \o "  example_tool: {\n"
            \o "    name: \"example_tool\",\n"
            \o "    description: 'Example tool.',\n"
            \o "  },\n"
            \o "}\n"
            \o "\n"
            \o "export default toolMetadata;"
       [] f = "src/mcp/tools.ts" -> RegistryTemplate
       [] f = "scripts/startup-project.ts" -> "console.log(\"running\");"
       [] f = "src/domain/domain-name/dtos/domain.dto.ts" ->
            "export type DomainExampleResponseDto = {\n"
            \o "  results: any[];\n"
            \o "}\n"
            \o "\n"
            \o "export interface DomainExampleRequestDto {\n"
            \o "  exampleParam: string;\n"
            \o "}"
       [] f = "src/domain/domain-name/clients/domain.db.client.ts"
            ->
            "import { DomainExampleRequestDto, DomainExampleResponseDto } from \"../dtos/domain.dto.js\";\n"
            \o "\n"
            \o "export class DomainDbClient {\n"
            \o "  async example(dto: DomainExampleRequestDto): Promise<DomainExampleResponseDto | null> {\n"
            \o "    return null;\n"
            \o "  }\n"
            \o "}"
       [] f = "src/domain/domain-name/clients/domain.http.client.ts"
            -> DomainHttpClientTemplate
       [] f = "src/domain/domain-name/services/domain.service.ts"
            -> DomainServiceTemplate]

\* the project a run starts on: the template, or the template with a
\* difference that a run can meet
Project(v) ==
  [files |->
     CASE v = "no-registry" ->
            [q \in (DOMAIN TemplateFiles) \ {"src/mcp/tools.ts"}
               |-> TemplateFiles[q]]
       [] v = "malformed-manifest" ->
            \* package.json cut short: JSON.parse throws on it
            [TemplateFiles EXCEPT
               !["package.json"] = "{\n  \"name\": \"example-mcp-proj-name\",\n"]
       [] v = "one-line-metadata" ->
            \* the metadata object on one line: no example_tool to rename,
            \* and no line break ahead of the closing brace to anchor on
            [TemplateFiles EXCEPT
               !["src/tools.metadata.ts"] =
                 "const toolMetadata = {};\n\nexport default toolMetadata;"]
       [] v = "no-trailing-comma" ->
            \* the last entry of the tools map, of the metadata object and
            \* of the TOOLS_ENABLED list without its comma
            [TemplateFiles EXCEPT
               !["src/mcp/tools.ts"] =
                 ReplaceFirst(RegistryTemplate, "  },\n}", "  }\n}"),
               !["src/tools.metadata.ts"] = ReplaceFirst(@, "  },\n}", "  }\n}"),
               !["src/env.ts"] = ReplaceFirst(@, " : null,\n", " : null\n")]
       [] v = "no-domains" ->
            [q \in {k \in DOMAIN TemplateFiles : ~Inside(k, "src/domain")}
               |-> TemplateFiles[q]]
       [] v = "legacy-domain" ->
            \* a second domain in the flat layout, and the flat file that
            \* the template keeps next to its services directory
            Put(Put(TemplateFiles, "src/domain/billing/service.ts",
                    "export class BillingService {\n}\n\n"
                      \o "export default new BillingService();"),
                "src/domain/domain-name/service.ts",
                "export class DomainService {\n}\n\n"
                  \o "export default new DomainService();")
       [] v = "prefixed-import" ->
            \* the tools map imports a second version of the service, whose
            \* name starts with the name of the domain's service class
            [TemplateFiles EXCEPT
               !["src/mcp/tools.ts"] =
                 ReplaceAll(RegistryTemplate, "DomainService",
                            "DomainServiceV2")]
       [] v = "code-after-class" ->
            \* the service file goes on after its class with an object
            [TemplateFiles EXCEPT
               !["src/domain/domain-name/services/domain.service.ts"] =
                 @ \o "\n\nexport const limits = {\n  retries: 3,\n};"]
       [] v = "existing-api-utils" ->
            \* the domain has its header utility already, edited by hand
            Put(TemplateFiles, "src/domain/domain-name/utils/api.ts",
                "// Original")
       [] v = "two-domains" ->
            Put(TemplateFiles, "src/domain/billing/services/domain.service.ts",
                "export  class BillingService {\n}\n\n"
                  \o "export default new BillingService();")
       [] OTHER -> TemplateFiles,
   dirs |->
     CASE v = "destination-exists" ->
            TemplateDirs \cup {"src/domain/order-system"}
       [] v = "no-domains" ->
            {d \in TemplateDirs : ~Inside(d, "src/domain")}
       [] v = "two-domains" ->
            TemplateDirs \cup {"src/domain/billing",
                               "src/domain/billing/services"}
       [] v = "legacy-domain" ->
            TemplateDirs \cup {"src/domain/billing"}
       [] v = "existing-api-utils" ->
            TemplateDirs \cup {"src/domain/domain-name/utils"}
       [] OTHER -> TemplateDirs,
   readOnly |-> IF v = "read-only-env" THEN {"src/env.ts"} ELSE {}]

\* what the operator types at the five prompts of loadInputs
StartupAnswers ==
  [projectNameRaw : {"My Weather API", " example-mcp-proj-name v2"},
   domainInputRaw : {"Order System", "", "domain-name", "my domain"},
   serviceMethodRaw : {"create order", "createOrder", ""},
   toolNameRaw : {"create_order", "", "my example_tool"},
   clientMethodNameRaw : {"post order", ""}]

InitStartup ==
  /\ gen = "init"
  /\ pc = "execute"
  /\ raw = NoConfig
  /\ config = NoConfig
  /\ \E v \in {"template", "destination-exists", "no-registry",
                "malformed-manifest", "read-only-env", "one-line-metadata"} :
       /\ files = Project(v).files
       /\ dirs = Project(v).dirs
       /\ readOnly = Project(v).readOnly
  /\ files0 = files
  /\ dirs0 = dirs
  /\ trace = <<>>
  /\ err = NoErr
  /\ rlClosed = FALSE
  /\ exitCode = -1
  /\ executePromise = "pending"
  /\ IdleCase

\* what a step that only computes leaves unchanged
StepFrame == UNCHANGED <<gen, readOnly, files0, dirs0, rlClosed, exitCode,
                         executePromise>>
                /\ UNCHANGED caseVars

startup_loadInputs ==
  /\ gen = "init"
  /\ pc = "loadInputs"
  /\ \E a \in StartupAnswers : raw' = [k \in DOMAIN a |-> trim(a[k])]
  /\ Commit(Begin, StepAfter(startupSteps, "loadInputs"))
  /\ UNCHANGED config
  /\ StepFrame

startup_transform ==
  /\ gen = "init"
  /\ pc = "transformInputs"
  /\ config' = startup_transformInputs(raw)
  /\ Commit(Begin, StepAfter(startupSteps, "transformInputs"))
  /\ UNCHANGED raw
  /\ StepFrame

startup_GlobalConfig ==
  /\ gen = "init"
  /\ pc = "updateGlobalConfig"
  /\ Commit(updateGlobalConfig(Begin, config),
            StepAfter(startupSteps, "updateGlobalConfig"))
  /\ UNCHANGED <<raw, config>>
  /\ StepFrame

startup_DomainStructure ==
  /\ gen = "init"
  /\ pc = "updateDomainStructure"
  /\ Commit(updateDomainStructure(Begin, config),
            StepAfter(startupSteps, "updateDomainStructure"))
  /\ UNCHANGED <<raw, config>>
  /\ StepFrame

startup_DomainContent ==
  /\ gen = "init"
  /\ pc = "updateDomainContent"
  /\ Commit(updateDomainContent(Begin, config),
            StepAfter(startupSteps, "updateDomainContent"))
  /\ UNCHANGED <<raw, config>>
  /\ StepFrame

startup_McpRegistry ==
  /\ gen = "init"
  /\ pc = "updateMcpRegistry"
  /\ Commit(startup_updateMcpRegistry(Begin, config),
            StepAfter(startupSteps, "updateMcpRegistry"))
  /\ UNCHANGED <<raw, config>>
  /\ StepFrame

startup_endMessage ==
  /\ gen = "init"
  /\ pc = "endMessage"
  /\ Commit(Emit(Begin, Ev("banner", "", "", "Configuration")),
            StepAfter(startupSteps, "endMessage"))
  /\ UNCHANGED <<raw, config>>
  /\ StepFrame

startup_cleanup ==
  /\ gen = "init"
  /\ pc = "cleanup"
  /\ Commit(cleanup(Begin), StepAfter(startupSteps, "cleanup"))
  /\ UNCHANGED <<raw, config>>
  /\ StepFrame

NextStartup ==
  \/ execute
  \/ startup_loadInputs
  \/ startup_transform
  \/ startup_GlobalConfig
  \/ startup_DomainStructure
  \/ startup_DomainContent
  \/ startup_McpRegistry
  \/ startup_endMessage
  \/ startup_cleanup
  \/ ExecuteThen
  \/ ExecuteCatch

SpecStartup == InitStartup /\ [][NextStartup]_vars

(***************************************************************************)
(* The four generators run on a project.  The inputs of a run are answered *)
(* at the prompts of loadInputs; the statements of the callback that       *)
(* follow the last prompt run in one turn, as the action <name>_exec.      *)
(***************************************************************************)
DomainAnswers ==
  [domainNameRaw : {"Order System", "", "domain-name"},
   addHttpRaw : {"Y", "n"},
   addDbRaw : {"yes", ""},
   clientMethodNameRaw : {"fetch orders", ""},
   serviceMethodRaw : {"createOrder", ""}]

ClientAnswers ==
  [domainIdxRaw : {"1", " 2 ", "99", "0", "-1", "abc"},
   typeRaw : {"1", "2", "3"},
   nameRaw : {"weather-api", "domain", ""},
   methodRaw : {"getForecast", ""}]

ServiceAnswers ==
  [domainIdxRaw : {"1", "99", "0", "-1", "abc"},
   serviceNameRaw : {"user-profile", ""},
   methodNameRaw : {"createOrder", ""},
   dbChoice : {"1", "2", "3", "9"},
   dbNewName : {"user"},
   httpChoice : {"1", "2", "3"},
   httpNewName : {"weather", ""}]

ToolAnswers ==
  [selectionIndex : {"1", "2", "99", "0", "abc"},
   methodNameRaw : {"createOrder", "get weather", ""},
   toolNameRaw : {"get_weather"},
   toolDescription : {"Gets the weather", "costs $1"},
   wantHttp : {"Y", "n"},
   wantDb : {"yes", ""},
   clientIdx : {"1"},
   clientMethodRaw : {"fetch weather", ""}]

InitGenerator ==
  /\ gen \in {"new-domain", "new-client", "new-service", "new-tool"}
  /\ pc = "execute"
  /\ raw = NoConfig
  /\ config = NoConfig
  /\ \E v \in {"template", "no-domains", "two-domains", "no-registry",
                "read-only-env", "one-line-metadata", "no-trailing-comma",
                "legacy-domain", "existing-api-utils"}
               \cup (IF gen = "new-tool"
                       THEN {"prefixed-import", "code-after-class"}
                       ELSE {}) :
       /\ files = Project(v).files
       /\ dirs = Project(v).dirs
       /\ readOnly = Project(v).readOnly
  /\ files0 = files
  /\ dirs0 = dirs
  /\ trace = <<>>
  /\ err = NoErr
  /\ rlClosed = FALSE
  /\ exitCode = -1
  /\ executePromise = "pending"
  /\ IdleCase

\* loadInputs is over in st, the file system with what was asked: the inputs
\* it returns are in raw, or it throws the error e
Loaded(st, inputs, e) ==
  /\ raw' = (IF e = NoErr THEN inputs ELSE NoConfig)
  /\ Commit(Throw(st, e), "exec")
  /\ UNCHANGED config
  /\ StepFrame

\* the configuration is in: the files are generated and the end banner
\* is logged, or the error of the validation is thrown; generated is the
\* file system after the generating calls of the callback, which run only
\* on a valid configuration
Executed(c, generated, banner) ==
  /\ config' = c
  /\ Commit(IF c.err # NoErr THEN Throw(Begin, c.err)
            ELSE Emit(generated, Ev("banner", "", "", banner)),
            "resolved")
  /\ UNCHANGED raw
  /\ StepFrame

domain_loadInputs ==
  /\ gen = "new-domain"
  /\ pc = "loadInputs"
  /\ \E a \in DomainAnswers :
       Loaded(Begin,
              [domainNameRaw |-> trim(a.domainNameRaw),
               addHttpRaw |-> toLowerCase(trim(a.addHttpRaw)),
               addDbRaw |-> toLowerCase(trim(a.addDbRaw)),
               clientMethodNameRaw |->
                 IF toLowerCase(trim(a.addHttpRaw)) \in {"y", "yes"}
                      \/ toLowerCase(trim(a.addDbRaw)) \in {"y", "yes"}
                   THEN trim(a.clientMethodNameRaw)
                   ELSE "",
               serviceMethodRaw |-> trim(a.serviceMethodRaw)],
              NoErr)

\* the callback of new-domain with the domain directory made before the
\* configuration is validated
domain_execDirectoryFirst ==
  /\ gen = "new-domain"
  /\ pc = "exec"
  /\ config' = createDomainConfig(Begin, raw)
  /\ LET Made(st, c) ==
           IF c.err # NoErr THEN Throw(st, c.err)
           ELSE Emit(domain_createFiles(createDirectories(st, c), c),
                     Ev("banner", "", "", "Domain"))
     IN  Commit(Made(mkdirSync(Begin,
                               pathJoin(<<"src/domain",
                                          toKebabCase(raw.domainNameRaw)>>),
                               TRUE),
                     createDomainConfig(Begin, raw)),
                "resolved")
  /\ UNCHANGED raw
  /\ StepFrame

domain_exec ==
  /\ gen = "new-domain"
  /\ pc = "exec"
  /\ LET Run(c) ==
           Executed(c, domain_createFiles(createDirectories(Begin, c), c),
                    "Domain")
     IN  Run(createDomainConfig(Begin, raw))

client_loadInputs ==
  /\ gen = "new-client"
  /\ pc = "loadInputs"
  /\ \E a \in ClientAnswers :
       LET Listed(availableDomains) ==
             IF availableDomains = <<>>
               THEN Loaded(Begin, NoConfig,
                           "No domains found. Please run 'npm run new-domain'")
               ELSE Loaded(Emit(Begin, Ev("question", "Select Domain", "", a.domainIdxRaw)),
                           [domainIdxRaw |-> a.domainIdxRaw,
                            typeRaw |-> trim(a.typeRaw),
                            nameRaw |-> trim(a.nameRaw),
                            methodRaw |-> trim(a.methodRaw),
                            availableDomains |-> availableDomains],
                           NoErr)
       IN  Listed(getUniqueDomains(getDomainsServicesWithDomainMap(Begin)))

client_exec ==
  /\ gen = "new-client"
  /\ pc = "exec"
  /\ LET Run(c) == Executed(c, generateClientFiles(Begin, c), "Client")
     IN  Run(client_transformInputs(raw))

service_loadInputs ==
  /\ gen = "new-service"
  /\ pc = "loadInputs"
  /\ \E a \in ServiceAnswers :
       LET ClientSelection(choice, newName, existingClients) ==
             [choice |-> trim(choice),
              newName |-> IF trim(choice) = "2" THEN trim(newName) ELSE "",
              existingClients |-> existingClients]
           Asked(domain, clientsDir) ==
             Loaded(Emit(Begin, Ev("question", "Select Domain", "", a.domainIdxRaw)),
                    [domain |-> domain,
                     serviceNameRaw |-> trim(a.serviceNameRaw),
                     methodNameRaw |-> trim(a.methodNameRaw),
                     dbClientSelection |->
                       ClientSelection(a.dbChoice, a.dbNewName,
                                       getClients(Begin, clientsDir, "db")),
                     httpClientSelection |->
                       ClientSelection(a.httpChoice, a.httpNewName,
                                       getClients(Begin, clientsDir, "http"))],
                    NoErr)
           Picked(domains, i) ==
             IF domains = <<>>
               THEN Loaded(Begin, NoConfig, "No domains found. Please run startup-project first or create a domain manually.")
             ELSE IF i = 0
               THEN Loaded(Emit(Begin, Ev("question", "Select Domain", "", a.domainIdxRaw)),
                           NoConfig, "Invalid selection.")
             ELSE Asked(domains[i], pathJoin(<<domains[i].rootPath, "clients">>))
           Listed(domains) ==
             Picked(domains, Selected(domains, trim(a.domainIdxRaw), 1))
       IN  Listed(getAvailableDomains(getDomainsServicesWithDomainMap(Begin)))

service_exec ==
  /\ gen = "new-service"
  /\ pc = "exec"
  /\ LET Run(c) == Executed(c, generateFiles(Begin, c), "Service")
     IN  Run(service_transformInputs(raw))

tool_loadInputs ==
  /\ gen = "new-tool"
  /\ pc = "loadInputs"
  /\ \E a \in ToolAnswers :
       LET Named(clients, i, methodRaw, methodNameRaw) ==
             [client |-> clients[i],
              methodName |-> IF trim(methodRaw) # "" THEN trim(methodRaw)
                             ELSE methodNameRaw]
           Chosen(clients, want, i, methodRaw, methodNameRaw) ==
             IF clients # <<>> /\ toLowerCase(trim(want)) \in {"y", "yes"}
                  /\ i # 0
               THEN Named(clients, i, methodRaw, methodNameRaw)
               ELSE [client |-> NoConfig, methodName |-> ""]
           ToolClient(clients, want, clientIdx, methodRaw, methodNameRaw) ==
             Chosen(clients, want,
                    IF Len(clients) = 1 THEN 1
                    ELSE Selected(clients, trim(clientIdx), 1),
                    methodRaw, methodNameRaw)
           Asked(domain, clientsDir) ==
             Loaded(Emit(Begin, Ev("question", "Select a Domain Service", "", a.selectionIndex)),
                    [domain |-> domain,
                     methodNameRaw |-> trim(a.methodNameRaw),
                     toolNameRaw |-> trim(a.toolNameRaw),
                     toolDescription |-> trim(a.toolDescription),
                     httpClientSelection |->
                       ToolClient(getClients(Begin, clientsDir, "http"),
                                  a.wantHttp, a.clientIdx, a.clientMethodRaw,
                                  trim(a.methodNameRaw)),
                     dbClientSelection |->
                       ToolClient(getClients(Begin, clientsDir, "db"),
                                  a.wantDb, a.clientIdx, a.clientMethodRaw,
                                  trim(a.methodNameRaw))],
                    NoErr)
           Picked(domains, i) ==
             IF domains = <<>>
               THEN Loaded(Begin, NoConfig, "[mn] No domains found in src/domain. Please create a domain first.")
             ELSE IF i = 0
               THEN Loaded(Emit(Begin, Ev("question", "Select a Domain Service", "", a.selectionIndex)),
                           NoConfig, "Invalid selection.")
             ELSE Asked(domains[i],
                        resolve(pathJoin(<<"src/domain", domains[i].dirName,
                                           "clients">>)))
           Listed(domains) ==
             Picked(domains, Selected(domains, trim(a.selectionIndex), 1))
       IN  Listed(getDomainsServicesWithDomainMap(Begin))

\* updateMetadata ... updateMcpRegistry, in the order of the callback
tool_exec ==
  /\ gen = "new-tool"
  /\ pc = "exec"
  /\ LET Run(c) ==
           Executed(c,
                    tool_updateMcpRegistry(
                      updateClients(
                        updateDomainService(
                          createDtoFile(updateEnv(updateMetadata(Begin, c), c),
                                        c), c), c), c),
                    "Tool")
     IN  Run(tool_transformInputs(raw))

Init == InitStartup \/ InitGenerator

Next ==
  \/ NextStartup
  \/ domain_loadInputs
  \/ domain_exec
  \/ client_loadInputs
  \/ client_exec
  \/ service_loadInputs
  \/ service_exec
  \/ tool_loadInputs
  \/ tool_exec

Spec == Init /\ [][Next]_vars

(***************************************************************************)
(* Properties of init-project.                                             *)
(***************************************************************************)
\* the events that address a file of the domain tree by its path
AddressesDomainFile(e) ==
  /\ e.op \in {"renameFile", "replaceInFile"}
  /\ Inside(e.path, "src/domain")

\* the directory rename the event at i comes after, and whose new path it uses
RenamedBefore(i, j) ==
  /\ trace[j].op = "renameDir"
  /\ trace[j].path = "src/domain/domain-name"
  /\ Inside(trace[i].path, trace[j].to)
  /\ trace[i].op = "renameFile" => Inside(trace[i].to, trace[j].to)
  /\ trace[j].to # trace[j].path => ~Inside(trace[i].path, trace[j].path)

\* C1: in init-project the rename of the domain directory is over before any
\* file rename nested under it and before any content rewrite of a file
\* inside it, and each of these addresses its file through the new path of
\* the directory, never through the original one.
DomainRenameFirst ==
  \A i \in 1..Len(trace) :
    AddressesDomainFile(trace[i]) =>
      /\ \E j \in 1..(i - 1) : RenamedBefore(i, j)
      /\ \A k \in (i + 1)..Len(trace) :
           /\ trace[k].op # "renameDir"
           /\ trace[k].op = "rename" => trace[k].path # "src/domain/domain-name"

\* a run that renamed the domain directory, then a file under the new path,
\* then rewrote a file under the new path
DomainRenameFirstWitness ==
  /\ pc = "done"
  /\ exitCode = 0
  /\ \E j, i, k \in 1..Len(trace) :
       /\ j < i /\ i < k
       /\ trace[j].op = "renameDir" /\ trace[j].res = "renamed"
       /\ trace[j].to = "src/domain/order-system"
       /\ trace[i].op = "renameFile" /\ trace[i].res = "renamed"
       /\ Inside(trace[i].path, trace[j].to)
       /\ trace[k].op = "replaceInFile" /\ trace[k].res = "updated"
       /\ Inside(trace[k].path, trace[j].to)

\* the number of events of the helper op before position i
HelperCalls(op, i) ==
  Cardinality({k \in 1..(i - 1) : trace[k].op = op})

\* C2: in init-project the self-deletion (the init command removed from the
\* manifest, then the script's own file deleted) happens only after every
\* other step of the run has succeeded, in that order, and nothing but the
\* end of the run follows it.
SelfDeletionLast ==
  \A i \in 1..Len(trace) :
    trace[i].op = "cleanup" =>
      /\ err = NoErr
      /\ HelperCalls("replaceInFile", i) = 10
      /\ HelperCalls("renameDir", i) = 1
      /\ HelperCalls("renameFile", i) = 4
      /\ HelperCalls("banner", i) = 1
      /\ HelperCalls("fatal", i) = 0
      /\ trace[i].res = "script" =>
           \A k \in (i + 1)..Len(trace) : trace[k].op # "cleanup"
      /\ \A k \in (i + 1)..Len(trace) :
           \/ trace[k].op \in {"cleanup", "warn", "close", "exit"}
           \/ trace[k].op = "write" /\ trace[k].path = "package.json"
           \/ trace[k].op = "unlink" /\ trace[k].path = "scripts/startup-project.ts"

\* a run that removed its command from the manifest and then its own file
SelfDeletionLastWitness ==
  /\ pc = "done"
  /\ exitCode = 0
  /\ "scripts/startup-project.ts" \notin DOMAIN files
  /\ "scripts/startup-project.ts" \in DOMAIN files0
  /\ ~includes(files["package.json"], "startup-project")
  /\ \E i, k \in 1..Len(trace) :
       /\ i < k
       /\ trace[i].op = "cleanup" /\ trace[i].res = "command"
       /\ trace[k].op = "unlink" /\ trace[k].path = "scripts/startup-project.ts"

(***************************************************************************)
(* The rewriter called twice: updateGlobalConfig run a second time on the  *)
(* files its first run left.                                               *)
(***************************************************************************)
InitRewrite ==
  /\ gen = "rewrite"
  /\ pc = "first"
  /\ raw = NoConfig
  /\ \E a \in StartupAnswers :
       config = startup_transformInputs([k \in DOMAIN a |-> trim(a[k])])
  /\ files = TemplateFiles
  /\ dirs = TemplateDirs
  /\ readOnly = {}
  /\ files0 = files
  /\ dirs0 = dirs
  /\ trace = <<>>
  /\ err = NoErr
  /\ rlClosed = FALSE
  /\ exitCode = -1
  /\ executePromise = "pending"
  /\ IdleCase

RewriteFirst ==
  /\ gen = "rewrite"
  /\ pc = "first"
  /\ Commit(updateGlobalConfig(Begin, config), "second")
  /\ UNCHANGED <<raw, config>>
  /\ StepFrame

RewriteSecond ==
  /\ gen = "rewrite"
  /\ pc = "second"
  /\ Commit(updateGlobalConfig(Begin, config), "twice")
  /\ UNCHANGED <<raw, config>>
  /\ StepFrame

NextRewrite ==
  \/ RewriteFirst
  \/ RewriteSecond

SpecRewrite == InitRewrite /\ [][NextRewrite]_vars

\* the replaceInFile calls of the run so far, in order
RewriteCalls == SelectSeq(trace, LAMBDA e : e.op = "replaceInFile")

\* C5: the second call of the rewriter with the same rules on the same file
\* reports no change and does not write the file.
SecondRewriteNoChange ==
  pc = "twice" =>
    \A i \in 6..Len(RewriteCalls) : RewriteCalls[i].res # "updated"

(***************************************************************************)
(* Properties of the generators.                                           *)
(***************************************************************************)
\* the errors that the validation and the discovery of the scripts throw
ValidationError(e) ==
  \/ e \in {"Domain name is required.", "Invalid selection.",
            "Invalid domain selection.", "Invalid client type.",
            "Client name is required."}
  \/ startsWith(e, "Domain '") /\ endsWith(e, "' already exists.")
  \/ includes(e, "No domains found")

\* C3: no mkdir, rename, write or delete precedes a validation or discovery
\* check: a run that such a check ended has made no file system call that
\* changes anything, and the files and directories are those it found.
NoChangeBeforeValidation ==
  ValidationError(err) =>
    /\ files = files0
    /\ dirs = dirs0
    /\ \A i \in 1..Len(trace) : trace[i].op \notin MutationOps

\* new-domain ended on a domain that exists already
NoChangeBeforeValidationWitness ==
  /\ gen = "new-domain"
  /\ pc = "done"
  /\ exitCode = 1
  /\ err = "Domain 'domain-name' already exists."

\* the line old of a file is the line new, or new is old with the comma that
\* the registry insertion puts after the last entry
SameEntry(old, new) == new = old \/ new = old \o ","

\* the lines old are among the lines new, in their order
RECURSIVE EntriesKept(_, _)
EntriesKept(old, new) ==
  IF old = <<>> THEN TRUE
  ELSE IF new = <<>> THEN FALSE
  ELSE IF SameEntry(Head(old), Head(new))
    THEN EntriesKept(Tail(old), Tail(new))
  ELSE EntriesKept(old, Tail(new))

\* C6: the insertions of new-tool only add: every line that a file of the
\* project had before the run is still in the file, and the lines that were
\* there keep their order.
InsertionAppendOnly ==
  gen = "new-tool" =>
    \A p \in DOMAIN files0 :
      /\ p \in DOMAIN files
      /\ EntriesKept(SplitOn(files0[p], "\n"), SplitOn(files[p], "\n"))

\* new-tool ended with the metadata, the toggles, the service class and the
\* registry all longer than it found them
InsertionAppendOnlyWitness ==
  /\ gen = "new-tool"
  /\ pc = "done"
  /\ exitCode = 0
  /\ \A p \in {"src/tools.metadata.ts", "src/env.ts", "src/mcp/tools.ts",
               "src/domain/domain-name/services/domain.service.ts"} :
       /\ p \in DOMAIN files0
       /\ Len(files[p]) > Len(files0[p])

\* the run has derived DTO names
DerivesDtoNames ==
  /\ config # NoConfig
  /\ \/ gen = "init"
     \/ gen \in {"new-domain", "new-service", "new-tool"} /\ config.err = NoErr

\* what was answered at the prompt for the method of the service
MethodAnswer ==
  IF gen \in {"init", "new-domain"} THEN raw.serviceMethodRaw
  ELSE raw.methodNameRaw

\* the request DTO, the response DTO and the DTO file that the run names
DtoNaming ==
  CASE gen = "init" ->
         <<config.requestDto, config.responseDto,
           config.serviceMethod \o ".dto.ts">>
    [] gen = "new-tool" ->
         <<config.requestDtoName, config.responseDtoName,
           basename(config.dtoFile)>>
    [] OTHER ->
         <<config.requestDtoName, config.responseDtoName, config.dtoFileName>>

\* C7: the method createOrder gives the DTO names CreateOrderRequestDto and
\* CreateOrderResponseDto and the DTO file createOrder.dto.ts, whatever the
\* domain.
DtoNamesFromMethod ==
  (DerivesDtoNames /\ MethodAnswer = "createOrder") =>
    DtoNaming = <<"CreateOrderRequestDto", "CreateOrderResponseDto",
                  "createOrder.dto.ts">>

\* C8: no DTO name and no DTO file name is derived from an empty method
\* name.
NoDtoFromEmptyMethod ==
  (DerivesDtoNames /\ MethodAnswer = "") =>
    /\ DtoNaming[1] # "RequestDto"
    /\ DtoNaming[2] # "ResponseDto"
    /\ DtoNaming[3] # ".dto.ts"

\* answers that are no number of a presented list: the lists of the projects
\* have one or two entries
OutsideAnswers == {"99", "0", "-1", "abc"}

\* the diagnostic line of the run holds the text
FatalWith(text) ==
  \E i \in 1..Len(trace) :
    /\ trace[i].op = "fatal"
    /\ includes(trace[i].res, "[FATAL ERROR]")
    /\ includes(trace[i].res, text)

\* C9: a selection prompt answered with 99, 0, a negative number or a text
\* that is no number ends the run in a fatal error with exit code 1, and in
\* new-client the error says Invalid domain selection.
SelectionOutsideFatal ==
  (/\ pc = "done"
   /\ \E i \in 1..Len(trace) :
        trace[i].op = "question" /\ trim(trace[i].res) \in OutsideAnswers)
    => /\ exitCode = 1
       /\ FatalWith("[FATAL ERROR]")
       /\ gen = "new-client" => FatalWith("Invalid domain selection")

\* new-client ended after the answer 99 to its one domain
SelectionOutsideFatalWitness ==
  /\ gen = "new-client"
  /\ pc = "done"
  /\ exitCode = 1
  /\ \E i \in 1..Len(trace) : trace[i].op = "question" /\ trace[i].res = "99"

\* C10: a run that is over has closed the prompt interface and ended with
\* code 0 without a diagnostic line, or it has printed the line with the
\* marker [FATAL ERROR] and the message of its error and then exited with
\* code 1.
RunEndsOneOfTwoWays ==
  pc = "done" =>
    \/ /\ err = NoErr
       /\ rlClosed
       /\ exitCode = 0
       /\ \A i \in 1..Len(trace) : trace[i].op # "fatal"
    \/ /\ err # NoErr
       /\ exitCode = 1
       /\ \E i \in 1..Len(trace) :
            /\ trace[i].op = "fatal"
            /\ includes(trace[i].res, "[FATAL ERROR]")
            /\ includes(trace[i].res, err)
            /\ \E j \in (i + 1)..Len(trace) :
                 trace[j].op = "exit" /\ trace[j].res = "1"

\* new-tool ended on the error of a write that the file system refused
RunEndsOneOfTwoWaysWitness ==
  /\ gen = "new-tool"
  /\ pc = "done"
  /\ exitCode = 1
  /\ startsWith(err, "EACCES")

(***************************************************************************)
(* Properties of the error handling.                                       *)
(***************************************************************************)
\* an error was thrown in the run: the one that rejected the callback, or
\* one that cleanup caught
ErrorThrown ==
  \/ err # NoErr
  \/ \E i \in 1..Len(trace) :
       trace[i].op = "warn" /\ trace[i].res = "Cleanup failed"

\* C11: a run in which an error was thrown, expected or not (a manifest
\* that JSON.parse rejects, for one), is over with the line [FATAL ERROR]
\* printed and the exit code 1.
UnexpectedErrorFatal ==
  pc = "done" /\ ErrorThrown => exitCode = 1 /\ FatalWith("[FATAL ERROR]")

\* a rewrite of the run so far found its file missing or its anchor
\* unmatched
WarningLogged ==
  \E i \in 1..Len(trace) :
    /\ trace[i].op \in {"replaceInFile", "injectIntoFile"}
    /\ trace[i].res \in {"notfound", "nochange"}

\* C12: a missing file or an unmatched anchor is logged and nothing more:
\* a run that is over after such a log has not ended with code 1, and it has
\* made every one of its rewrite calls (ten in init-project; in new-tool
\* four and one for each client it adds a method to).
WarningsDoNotAbort ==
  pc = "done" /\ WarningLogged =>
    /\ exitCode # 1
    /\ gen = "init" =>
         Cardinality({k \in 1..Len(trace) : trace[k].op = "replaceInFile"})
           = 10
    /\ gen = "new-tool" =>
         Cardinality({k \in 1..Len(trace) : trace[k].op = "injectIntoFile"})
           = 4 + (IF config.httpClient # NoConfig THEN 1 ELSE 0)
               + (IF config.dbClient # NoConfig THEN 1 ELSE 0)

\* init-project went on to update a file after a rewrite that found its
\* file missing or nothing to change, and ended with code 0
WarningsDoNotAbortWitness ==
  /\ gen = "init"
  /\ pc = "done"
  /\ exitCode = 0
  /\ \E i, j \in 1..Len(trace) :
       /\ i < j
       /\ trace[i].op = "replaceInFile"
       /\ trace[i].res \in {"notfound", "nochange"}
       /\ trace[j].op = "replaceInFile"
       /\ trace[j].res = "updated"

(***************************************************************************)
(* Properties of what a run leaves behind.                                 *)
(***************************************************************************)
\* C13: after an init-project run that ended with code 0 the script's own
\* file is gone, and the command table of the manifest is the table the run
\* found without the init command: no other command is added, dropped or
\* changed.
SelfDestructComplete ==
  gen = "init" /\ pc = "done" /\ exitCode = 0 =>
    /\ "scripts/startup-project.ts" \notin DOMAIN files
    /\ "package.json" \in DOMAIN files
    /\ parseManifest(files["package.json"]).ok
    /\ parseManifest(files["package.json"]).scripts
         = SelectSeq(parseManifest(files0["package.json"]).scripts,
                     LAMBDA e : e.key # "startup-project")

\* C14: once init-project has renamed the domain directory, the service file
\* is at the path computed from the new name, <new>/services/<new>.service.ts
\* (order-system/services/order-system.service.ts for the domain Order
\* System), and nothing is left at or under the old name of the directory.
RenamedPathsExist ==
  \A i \in 1..Len(trace) :
    trace[i].op = "renameDir" /\ trace[i].res = "renamed" =>
      /\ pathJoin(<<trace[i].to, "services", config.domainServiceFileName>>)
           \in DOMAIN files
      /\ \A p \in (DOMAIN files) \cup dirs :
           p # trace[i].path /\ ~Inside(p, trace[i].path)

\* the directory domain-name became order-system and the service file is
\* order-system/services/order-system.service.ts
RenamedPathsExistWitness ==
  /\ gen = "init"
  /\ pc = "done"
  /\ "src/domain/order-system/services/order-system.service.ts"
       \in DOMAIN files
  /\ "src/domain/domain-name/services/domain.service.ts" \in DOMAIN files0
  /\ "src/domain/domain-name/services/domain.service.ts" \notin DOMAIN files
  /\ \E i \in 1..Len(trace) :
       /\ trace[i].op = "renameDir" /\ trace[i].res = "renamed"
       /\ trace[i].path = "src/domain/domain-name"
       /\ trace[i].to = "src/domain/order-system"

\* the lines of the tools map: every entry but the first follows the line
\* that closes the entry before it, and that line ends with one comma
EntriesSeparated(lines) ==
  \A k \in 2..Len(lines) :
    /\ startsWith(lines[k], "  [")
    /\ \E j \in 1..(k - 1) : startsWith(lines[j], "  [")
    => lines[k - 1] = "  },"

\* C15: the entry that new-tool adds to the tools map is separated from the
\* entry before it by exactly one comma, also where that entry had no
\* trailing comma: the comma is put in ahead of the new entry.
RegistryCommaInserted ==
  gen = "new-tool" /\ "src/mcp/tools.ts" \in DOMAIN files =>
    EntriesSeparated(SplitOn(files["src/mcp/tools.ts"], "\n"))

\* new-tool added its entry to a map whose last entry had no comma
RegistryCommaInsertedWitness ==
  /\ gen = "new-tool"
  /\ pc = "done"
  /\ exitCode = 0
  /\ "src/mcp/tools.ts" \in DOMAIN files0
  /\ includes(files0["src/mcp/tools.ts"], "buildTool(DomainService.example)\n  }\n}")
  /\ includes(files["src/mcp/tools.ts"],
              "buildTool(DomainService.example)\n  },\n  [toolMetadata.get_weather.name]: {")

-----------------------------------------------------------------------------
(* Properties of the generated files                                       *)

\* C16: given an empty client-method answer, the derived client method name
\* is getData for a DB client and fetchData for an HTTP client, in new-client
\* and in new-domain alike, and the generated client class has that method.
DefaultClientMethod ==
  pc = "done" /\ exitCode = 0 =>
    /\ gen = "new-client" /\ raw.methodRaw = "" =>
         LET kind == IF config.type = "1" THEN "http" ELSE "db"
             name == IF config.type = "1" THEN "fetchData" ELSE "getData"
             p == pathJoin(<<config.clientsDir,
                             config.clientNameKebab \o "." \o kind
                               \o ".client.ts">>)
         IN  /\ config.methodNameCamel = name
             /\ p \in DOMAIN files
             /\ includes(files[p], "  async " \o name \o "(")
    /\ gen = "new-domain" /\ raw.clientMethodNameRaw = "" =>
         LET Client(fileName) ==
               pathJoin(<<config.domainBasePath, "clients", fileName>>)
             Has(p, name) ==
               p \in DOMAIN files /\ includes(files[p], "  async " \o name \o "(")
         IN  /\ config.addHttp =>
                  Has(Client(config.httpClientFileName), "fetchData")
             /\ config.addDb =>
                  Has(Client(config.dbClientFileName), "getData")

\* C17: an empty required name (the domain name of init-project and of
\* new-domain, the service name of new-service, the client name of
\* new-client) ends the run in a fatal error with exit code 1, and the run
\* has made no call that writes: the files and directories are those found.
EmptyNameFatal ==
  LET RequiredName ==
        CASE gen = "init" -> raw.domainInputRaw
          [] gen = "new-domain" -> raw.domainNameRaw
          [] gen = "new-service" -> raw.serviceNameRaw
          [] gen = "new-client" -> raw.nameRaw
          [] OTHER -> "-"
  IN  pc = "done" /\ raw # NoConfig /\ RequiredName = "" =>
        /\ exitCode = 1
        /\ FatalWith("[FATAL ERROR]")
        /\ files = files0
        /\ dirs = dirs0
        /\ \A i \in 1..Len(trace) : trace[i].op \notin MutationOps

-----------------------------------------------------------------------------
(* Properties of the discovery                                             *)

\* C18: discovery supports both layouts at once. A domain that has a
\* services directory is discovered from its services/*.ts files, a domain
\* without one from the flat file <domain>/service.ts, and a project with
\* domains in either state has all of them listed: the generators that
\* discover report no domains exactly when neither layout has a service,
\* new-client lists every such domain once, and the service or domain that
\* new-tool and new-service go on with is one of them.
BothLayoutsDiscovered ==
  LET Nested(d, p) ==
        /\ pathJoin(<<d, "services">>) \in dirs0
        /\ dirname(p) = pathJoin(<<d, "services">>)
        /\ endsWith(p, ".ts")
      Flat(d, p) ==
        /\ pathJoin(<<d, "services">>) \notin dirs0
        /\ p = pathJoin(<<d, "service.ts">>)
      services ==
        {dp \in {d \in dirs0 : dirname(d) = "src/domain"} \X DOMAIN files0 :
           /\ Nested(dp[1], dp[2]) \/ Flat(dp[1], dp[2])
           /\ ClassName(files0[dp[2]]) # ""}
      Of(item) == <<pathJoin(<<"src/domain", item.dirName>>), item.absolutePath>>
  IN  (/\ gen \in {"new-client", "new-service", "new-tool"}
       /\ pc \notin {"execute", "loadInputs"}) =>
        /\ includes(err, "No domains found") <=> services = {}
        /\ gen = "new-client" /\ raw # NoConfig =>
             /\ \A k \in 1..Len(raw.availableDomains) :
                  Of(raw.availableDomains[k]) \in services
             /\ {raw.availableDomains[k].dirName :
                   k \in 1..Len(raw.availableDomains)}
                  = {basename(dp[1]) : dp \in services}
             /\ Len(raw.availableDomains)
                  = Cardinality({dp[1] : dp \in services})
        /\ gen = "new-tool" /\ raw # NoConfig => Of(raw.domain) \in services
        /\ gen = "new-service" /\ raw # NoConfig =>
             raw.domain.dirName \in {basename(dp[1]) : dp \in services}

\* new-client has listed the template's domain from its services directory
\* and the billing domain from its flat file
BothLayoutsDiscoveredWitness ==
  /\ gen = "new-client"
  /\ raw # NoConfig
  /\ \E j, k \in 1..Len(raw.availableDomains) :
       /\ raw.availableDomains[j].absolutePath
            = "src/domain/domain-name/services/domain.service.ts"
       /\ raw.availableDomains[k].absolutePath = "src/domain/billing/service.ts"
  /\ "src/domain/domain-name/service.ts" \in DOMAIN files0

\* C19: a generated Service file has the import, the constructor parameter
\* and the instantiation argument of the HTTP client exactly when an HTTP
\* client was requested or selected, and those of the DB client exactly when
\* a DB client was; with neither, the constructor is constructor() {}, the
\* instance is made with no argument, and the method returns null and calls
\* no client. In new-domain a client is requested by the answer yes, in
\* new-service by any option other than [1] None.
ServiceClientClauses ==
  LET Wanted(k) ==
        IF gen = "new-domain"
          THEN (IF k = "http" THEN raw.addHttpRaw ELSE raw.addDbRaw)
                 \in {"y", "yes"}
          ELSE (IF k = "http" THEN raw.httpClientSelection.choice
                ELSE raw.dbClientSelection.choice) # "1"
      Resolved(client) == IF client # NoConfig THEN client.className ELSE ""
      Class(k) ==
        IF gen = "new-domain"
          THEN (IF k = "http" THEN config.httpClientClassName
                ELSE config.dbClientClassName)
          ELSE Resolved(IF k = "http" THEN config.httpClient
                        ELSE config.dbClient)
      path ==
        IF gen = "new-domain"
          THEN pathJoin(<<config.domainBasePath, "services",
                          config.serviceFileName>>)
          ELSE pathJoin(<<config.domainRoot, "services",
                          config.serviceFileName>>)
      method ==
        IF gen = "new-domain" THEN config.serviceMethodName
        ELSE config.methodName
      Clause(f, k, class) ==
        /\ class # ""
        /\ includes(f, "import { " \o class \o " } from \"../clients/")
        /\ includes(f, "private readonly " \o k \o "Client: " \o class)
        /\ includes(f, "new " \o class \o "()")
      NoClause(f, k) ==
        /\ ~includes(f, k \o "Client")
        /\ ~includes(f, "." \o k \o ".client.js")
        /\ ~includes(f, IF k = "http" THEN "HttpClient" ELSE "DbClient")
      Bare(f) ==
        /\ includes(f, "  constructor() {}")
        /\ includes(f, "export default new " \o config.serviceClassName \o "();")
        /\ ~includes(f, "await this.")
        /\ method # "" => includes(f, "    return null;")
      Composed(f) ==
        /\ \A k \in {"http", "db"} :
             IF Wanted(k) THEN Clause(f, k, Class(k)) ELSE NoClause(f, k)
        /\ ~Wanted("http") /\ ~Wanted("db") => Bare(f)
  IN  gen \in {"new-domain", "new-service"} /\ pc = "done" /\ exitCode = 0 =>
        path \in DOMAIN files /\ Composed(files[path])

\* C20: new-client generating an HTTP client creates the domain's
\* utils/api.ts exactly when the file was absent before the run: a file
\* that existed is never written and keeps its content, at every step of
\* the run, and a run that ends well leaves the file there, written once
\* with the header utility if it was missing.
ApiUtilsOnlyIfAbsent ==
  LET Writes(p) ==
        Cardinality({i \in 1..Len(trace) :
                       trace[i].op = "write" /\ trace[i].path = p})
      Kept(p) == p \in DOMAIN files /\ files[p] = files0[p] /\ Writes(p) = 0
      Created(p) ==
        p \in DOMAIN files /\ files[p] = ApiUtilsContent /\ Writes(p) = 1
      Api(domain) == pathJoin(<<"src/domain", domain.dirName, "utils", "api.ts">>)
  IN  gen = "new-client" =>
        /\ \A p \in DOMAIN files0 : basename(p) = "api.ts" => Kept(p)
        /\ pc = "done" /\ exitCode = 0 /\ config.type = "1" =>
             IF Api(config.domain) \in DOMAIN files0
               THEN Kept(Api(config.domain))
               ELSE Created(Api(config.domain))

\* an HTTP client was generated in the domain whose api.ts was there
ApiUtilsOnlyIfAbsentWitness ==
  /\ gen = "new-client"
  /\ pc = "done"
  /\ exitCode = 0
  /\ config.type = "1"
  /\ "src/domain/domain-name/utils/api.ts" \in DOMAIN files0
  /\ "src/domain/domain-name/utils/api.ts" \in DOMAIN files
  /\ files["src/domain/domain-name/utils/api.ts"] = "// Original"
  /\ \E p \in DOMAIN files :
       dirname(p) = "src/domain/domain-name/clients" /\ p \notin DOMAIN files0

-----------------------------------------------------------------------------
(* Properties of the client selection                                      *)

\* C21: a client selection answered with a number outside the presented
\* options ends the run in a fatal error with exit code 1, and no file is
\* written or modified. The options of new-service's client dependency are
\* [1] None, [2] Create New and [3].. for the existing clients; the prompt
\* of new-tool is shown only for a domain with several clients of one kind.
ClientSelectionOutsideFatal ==
  LET Outside(sel) ==
        \/ parseInt(sel.choice).nan
        \/ parseInt(sel.choice).n \notin 1..(2 + Len(sel.existingClients))
  IN  (/\ gen = "new-service"
       /\ pc = "done"
       /\ raw # NoConfig
       /\ Outside(raw.dbClientSelection) \/ Outside(raw.httpClientSelection))
        => /\ exitCode = 1
           /\ FatalWith("[FATAL ERROR]")
           /\ files = files0
           /\ dirs = dirs0
           /\ \A i \in 1..Len(trace) : trace[i].op \notin MutationOps

\* C22: every insertion into a comma-separated registry leaves its entries
\* separated: in the metadata object, in the TOOLS_ENABLED list and in the
\* tools map, an entry that follows another one follows a line that ends
\* with a comma, also where the last entry had no trailing comma before.
RegistriesCommaSeparated ==
  LET Lines(p) == IF p \in DOMAIN files THEN SplitOn(files[p], "\n") ELSE <<>>
      Key(line) ==
        startsWith(line, "  ") /\ ~startsWith(line, "   ") /\ endsWith(line, ": {")
      Toggle(line) == startsWith(line, "    process.env.")
      Separated(lines, Entry(_)) ==
        \A k \in 2..Len(lines) :
          Entry(lines[k]) /\ (\E j \in 1..(k - 1) : Entry(lines[j]))
            => endsWith(lines[k - 1], ",")
      \* a description with a $ pattern brings text of the file into the
      \* entry, lines that look like entries among it
      Plain == raw = NoConfig \/ ~includes(raw.toolDescription, "$")
  IN  gen = "new-tool" /\ Plain =>
        /\ Separated(Lines("src/tools.metadata.ts"), Key)
        /\ Separated(Lines("src/env.ts"), Toggle)
        /\ EntriesSeparated(Lines("src/mcp/tools.ts"))

-----------------------------------------------------------------------------
(* Properties of the rewriter's result                                     *)

\* C23: what a rewrite call returns tells a missing target file from an
\* anchor that did not match: a call that found no file and a call that
\* made no change have returned different values.
RewriteOutcomesDistinguishable ==
  \A i, j \in 1..Len(trace) :
    /\ trace[i].op \in {"replaceInFile", "injectIntoFile"}
    /\ trace[j].op = trace[i].op
    /\ trace[i].res = "notfound"
    /\ trace[j].res = "nochange"
    => trace[i].to # trace[j].to

-----------------------------------------------------------------------------
(* Properties of the selection                                             *)

\* C24: the entity that a run goes on with is the one displayed at the
\* answered 1-based index. The list displayed is the discovery of the
\* project as the run found it, in the order of the directory listing; the
\* answer k picks its k-th entry: the k-th service in new-tool, the k-th
\* domain in new-service and in new-client.
SelectedIsDisplayed ==
  LET found == getDomainsServicesWithDomainMap(
                 [files |-> files0, dirs |-> dirs0, trace |-> <<>>,
                  err |-> NoErr])
      firsts == {k \in 1..Len(found) :
                   \A j \in 1..(k - 1) : found[j].dirName # found[k].dirName}
      names == [k \in 1..Cardinality(firsts) |-> found[Nth(firsts, k)].dirName]
      listing == readdirSync([files |-> files0, dirs |-> dirs0], "src/domain")
      Position(name) == Min({k \in 1..Len(listing) : listing[k] = name})
      Answered(k) ==
        \E i \in 1..Len(trace) :
          trace[i].op = "question" /\ trim(trace[i].res) = ToString(k)
  IN  gen \in {"new-tool", "new-service", "new-client"} =>
        /\ \A j, k \in 1..Len(names) :
             j < k => Position(names[j]) < Position(names[k])
        /\ \A k \in 1..Len(found) :
             gen = "new-tool" /\ raw # NoConfig /\ Answered(k)
               => raw.domain = found[k]
        /\ \A k \in 1..Len(names) :
             /\ gen = "new-service" /\ raw # NoConfig /\ Answered(k)
                  => raw.domain.dirName = names[k]
             /\ (/\ gen = "new-client"
                 /\ config # NoConfig
                 /\ config.err = NoErr
                 /\ Answered(k))
                  => config.domain.dirName = names[k]

\* new-client went on with the second of two displayed domains
SelectedIsDisplayedWitness ==
  /\ gen = "new-client"
  /\ pc = "done"
  /\ exitCode = 0
  /\ \E i \in 1..Len(trace) : trace[i].op = "question" /\ trim(trace[i].res) = "2"
  /\ Len(raw.availableDomains) = 2
  /\ raw.availableDomains[2].dirName = "domain-name"
  /\ config.domain.dirName = "domain-name"

-----------------------------------------------------------------------------
(* Properties of the renamed identifiers                                   *)

\* C25: after init-project each renamed identifier is spelled the same
\* wherever it occurs: the tool key of tools.metadata.ts is the key that
\* env.ts and tools.ts refer to, the HTTP client class of the client file is
\* the class that the service file imports and uses, the service class of
\* the service file is the one that tools.ts imports, and the project name
\* of package.json is the one of the readme, in every run on the template
\* whose project, domain and tool name are not empty.
RenamedIdentifiersAgree ==
  LET Text(p) == IF p \in DOMAIN files THEN files[p] ELSE ""
      \* the text between the first a and the next b of s
      Cut(s, b, j) == IF j = 0 THEN s ELSE SubSeq(s, 1, j - 1)
      Rest(s, a, i) == IF i = 0 THEN "" ELSE From(s, i + Len(a))
      Upto(t, b) == Cut(t, b, indexOf(t, b))
      Between(s, a, b) == Upto(Rest(s, a, indexOf(s, a)), b)
      domainPath == pathJoin(<<"src/domain", config.domainDirName>>)
      client == Text(pathJoin(<<domainPath, "clients", config.httpClientFileName>>))
      service == Text(pathJoin(<<domainPath, "services",
                                 config.domainServiceFileName>>))
      Agree ==
        /\ Between(Text("src/tools.metadata.ts"), "{\n  ", ": {")
             = Between(Text("src/env.ts"), "toolMetadata.", ".name")
        /\ Between(Text("src/tools.metadata.ts"), "{\n  ", ": {")
             = Between(Text("src/mcp/tools.ts"), "[toolMetadata.", ".name]")
        /\ Between(client, "export class ", " {")
             = Between(service, "import { ", " }")
        /\ Between(client, "export class ", " {")
             = Between(service, "private readonly httpClient: ", ")")
        /\ Between(client, "export class ", " {")
             = Between(service, "(new ", "()")
        /\ Between(service, "export class ", " {")
             = Between(Text("src/mcp/tools.ts"), "import buildTool from \"./utils/newTool.js\";\nimport ", " from")
        /\ Between(Text("package.json"), "\"name\": \"", "\"")
             = Between(Text("readme.md"), "# ", " MCP Server")
  IN  (/\ gen = "init"
       /\ pc = "done"
       /\ exitCode = 0
       /\ files0 = TemplateFiles
       /\ dirs0 = TemplateDirs
       /\ raw.projectNameRaw # ""
       /\ raw.domainInputRaw # ""
       /\ raw.toolNameRaw # "")
        => Agree

-----------------------------------------------------------------------------
(* Properties of the place of the generated files                          *)

\* C26: every file that new-tool or new-service creates for the selected
\* domain lies inside src/domain/<dirName>/, and the DTO import of every
\* file that the run created or changed resolves to a file that is there,
\* for a domain found through services/*.ts and for one found through the
\* flat service.ts alike.
GeneratedInsideDomain ==
  LET created == (DOMAIN files) \ (DOMAIN files0)
      touched == created \cup {p \in (DOMAIN files) \cap (DOMAIN files0) :
                                 files[p] # files0[p]}
      Import(method) == "from \"../dtos/" \o method \o ".dto.js\""
      Resolved(p, method) ==
        pathJoin(<<dirname(p), "../dtos", method \o ".dto.ts">>)
  IN  gen \in {"new-tool", "new-service"} /\ pc = "done" /\ exitCode = 0 =>
        /\ \A p \in created :
             Inside(p, pathJoin(<<"src/domain", raw.domain.dirName>>))
        /\ \A p \in touched :
             includes(files[p], Import(config.methodName))
               => Resolved(p, config.methodName) \in created

-----------------------------------------------------------------------------
(* Properties of the imports of the tools map                              *)

\* C27: after new-tool has registered a tool, src/mcp/tools.ts has exactly
\* one import that binds the class name of the selected service: it is
\* added when missing and not added again when there, also when another
\* imported name starts with the class name.
ExactlyOneServiceImport ==
  LET Bound(lines, name) ==
        Cardinality({k \in 1..Len(lines) :
                       startsWith(lines[k], "import " \o name \o " from ")})
  IN  (/\ gen = "new-tool"
       /\ pc = "done"
       /\ exitCode = 0
       /\ "src/mcp/tools.ts" \in DOMAIN files
       /\ files["src/mcp/tools.ts"] # files0["src/mcp/tools.ts"])
        => Bound(SplitOn(files["src/mcp/tools.ts"], "\n"),
                 config.domain.className) = 1

-----------------------------------------------------------------------------
(* Properties of the injected method                                       *)

\* C28: the method that new-tool injects into the selected service file and
\* into each selected client file stands inside the class that discovery
\* reported for the file, immediately before the closing brace of that
\* class: the file is the import line, the file as it was up to that brace,
\* the method, and the file as it was from that brace on, whatever follows
\* the class.
MethodInsideClass ==
  LET \* the closing brace of the first exported class of the text
      Closing(text, i) == IndexFrom(text, "\n}", i) + 1
      Close(text) == Closing(text, indexOf(text, "export"))
      Stub(method) == "\n  async " \o method \o "(dto: "
      Placed(new, old, k, b, method) ==
        /\ Len(new) >= k + Len(old)
        /\ SubSeq(new, k + 1, k + b - 1) = SubSeq(old, 1, b - 1)
        /\ endsWith(new, From(old, b))
        /\ startsWith(SubSeq(new, k + b, Len(new) - Len(From(old, b))),
                      Stub(method))
      Injected(p, method) ==
        p \in DOMAIN files /\ p \in DOMAIN files0 /\ files[p] # files0[p]
          => Placed(files[p], files0[p], indexOf(files[p], "\n"),
                    Close(files0[p]), method)
  IN  gen = "new-tool" /\ pc = "done" /\ exitCode = 0 =>
        /\ Injected(config.domain.absolutePath, config.methodName)
        /\ config.httpClient # NoConfig =>
             Injected(config.httpClient.absolutePath,
                      config.httpClientMethodName)
        /\ config.dbClient # NoConfig =>
             Injected(config.dbClient.absolutePath, config.dbClientMethodName)

-----------------------------------------------------------------------------
(* Properties of the files that were there                                 *)

\* C29: creating an artifact destroys nothing: a file that existed before
\* the run at the path where new-tool, new-service or new-client writes a
\* DTO, service or client file keeps its content. The writes of a run are
\* those of its insertions and those that create a file.
ExistingContentPreserved ==
  LET Inserted(p) ==
        \E j \in 1..Len(trace) :
          trace[j].op = "injectIntoFile" /\ trace[j].path = p
  IN  gen \in {"new-tool", "new-service", "new-client"} =>
        \A i \in 1..Len(trace) :
          (/\ trace[i].op = "write"
           /\ trace[i].path \in DOMAIN files0
           /\ ~Inserted(trace[i].path))
            => /\ trace[i].path \in DOMAIN files
               /\ files[trace[i].path] = files0[trace[i].path]

-----------------------------------------------------------------------------
(* Properties of the execute wrapper                                       *)

\* C30: the promise returned by execute settles only after the
\* orchestration callback has settled and the prompt interface has been
\* closed: whoever awaits execute finds the callback ended, the interface
\* closed and the exit decision taken.
ExecuteSettlesAfterRun ==
  executePromise = "fulfilled" =>
    /\ pc = "done"
    /\ rlClosed
    /\ exitCode # -1

====
